---- MODULE Spec2Model ----
(***************************************************************************)
(* gloom: cache-line blocked one-hashing bloom filter.                     *)
(*                                                                         *)
(* A 64-bit word of the bit array is modelled as the set of its set bit    *)
(* indices (0..63): bitwise OR is set union, a mask 1 << b is {b}, and     *)
(* popcount is cardinality.  A key is identified with its 64-bit hash,     *)
(* kept as two 32-bit halves [hi, lo] (hi = h >> 32, lo = uint32(h)).      *)
(* Go slices are 0-based; bit-array words are functions over 0..n-1,       *)
(* primes/offsets/shards are sequences, so index i of the code is i+1.     *)
(***************************************************************************)
EXTENDS Integers, Sequences, FiniteSets, TLC

VARIABLES variant, filter, added, last, threads, started, issued, overlap, wire

vars == <<variant, filter, added, last, threads, started, issued, overlap, wire>>

(***************************************************************************)
(* Bounds of the model.                                                    *)
(***************************************************************************)
MaxBlocks == 2
MaxShardsIn == 2
MaxCount == 3
ConcK == 3
NumThreads == 2
MaxStarted == 2

(***************************************************************************)
(* params.go                                                               *)
(***************************************************************************)
BlockBits == 512
BlockWords == BlockBits \div 64

\* variant of primePartitions whose row for k = 7 ends in 61 a second time
primePartitions_Repeated ==
  [kk \in 3..14 |->
     CASE kk = 3  -> <<167, 173, 172>>
       [] kk = 4  -> <<109, 127, 137, 139>>
       [] kk = 5  -> <<97, 101, 103, 109, 102>>
       [] kk = 6  -> <<61, 79, 83, 89, 97, 103>>
       [] kk = 7  -> <<61, 67, 71, 79, 83, 89, 61>>
       [] kk = 8  -> <<37, 47, 53, 61, 67, 71, 79, 97>>
       [] kk = 9  -> <<41, 43, 47, 53, 59, 67, 71, 73, 58>>
       [] kk = 10 -> <<31, 37, 41, 43, 47, 53, 59, 61, 67, 73>>
       [] kk = 11 -> <<29, 31, 37, 41, 43, 44, 47, 53, 59, 61, 67>>
       [] kk = 12 -> <<17, 23, 29, 31, 37, 41, 43, 47, 53, 59, 61, 71>>
       [] kk = 13 -> <<17, 19, 23, 29, 31, 37, 41, 43, 47, 52, 53, 59, 61>>
       [] kk = 14 -> <<11, 13, 17, 19, 23, 29, 31, 37, 41, 47, 53, 59, 61, 71>>]

primePartitions ==
  [kk \in 3..14 |->
     CASE kk = 3  -> <<167, 173, 172>>
       [] kk = 4  -> <<109, 127, 137, 139>>
       [] kk = 5  -> <<97, 101, 103, 109, 102>>
       [] kk = 6  -> <<61, 79, 83, 89, 97, 103>>
       [] kk = 7  -> <<61, 67, 71, 79, 83, 89, 62>>
       [] kk = 8  -> <<37, 47, 53, 61, 67, 71, 79, 97>>
       [] kk = 9  -> <<41, 43, 47, 53, 59, 67, 71, 73, 58>>
       [] kk = 10 -> <<31, 37, 41, 43, 47, 53, 59, 61, 67, 73>>
       [] kk = 11 -> <<29, 31, 37, 41, 43, 44, 47, 53, 59, 61, 67>>
       [] kk = 12 -> <<17, 23, 29, 31, 37, 41, 43, 47, 53, 59, 61, 71>>
       [] kk = 13 -> <<17, 19, 23, 29, 31, 37, 41, 43, 47, 52, 53, 59, 61>>
       [] kk = 14 -> <<11, 13, 17, 19, 23, 29, 31, 37, 41, 47, 53, 59, 61, 71>>]

\* nil is the empty sequence
GetPrimePartition(kk) ==
  IF kk \in DOMAIN primePartitions THEN primePartitions[kk] ELSE <<>>

RECURSIVE Cumulative(_, _)
Cumulative(p, n) == IF n = 0 THEN 0 ELSE Cumulative(p, n - 1) + p[n]

\* variant of ComputeOffsets that adds the width before it stores the offset
ComputeOffsets_After(p) == [i \in 1..Len(p) |-> Cumulative(p, i)]

ComputeOffsets(p) == [i \in 1..Len(p) |-> Cumulative(p, i - 1)]

(***************************************************************************)
(* hash.go                                                                 *)
(***************************************************************************)
\* variant of hashSplit that takes the block from the low 32 bits
hashSplit_Low(h, numBlocks) ==
  [blockIdx |-> h.lo % numBlocks, intraHash |-> h.lo]

hashSplit(h, numBlocks) ==
  [blockIdx |-> h.hi % numBlocks, intraHash |-> h.lo]

hashSplitSharded(h, numBlocks) ==
  [blockIdx |-> (h.hi \div 65536) % numBlocks, intraHash |-> h.lo]

(***************************************************************************)
(* Bit operations on naturals (shard mask).                                 *)
(***************************************************************************)
RECURSIVE BitAnd(_, _)
BitAnd(a, b) ==
  IF a = 0 \/ b = 0 THEN 0
  ELSE (a % 2) * (b % 2) + 2 * BitAnd(a \div 2, b \div 2)

(***************************************************************************)
(* uint64 values as the set of their bits that are 1 (bit 0 the lowest),   *)
(* so that the arithmetic of nextPowerOf2 keeps its width.                 *)
(***************************************************************************)
\* uint64(n) for 0 <= n < 2^31
RECURSIVE Word64(_)
Word64(n) ==
  IF n = 0 THEN {}
  ELSE {b + 1 : b \in Word64(n \div 2)} \cup (IF n % 2 = 1 THEN {0} ELSE {})

\* the number that a word below 2^31 stands for
RECURSIVE NatOf(_)
NatOf(S) ==
  IF S = {} THEN 0
  ELSE 2 * NatOf({b - 1 : b \in S \ {0}}) + (IF 0 \in S THEN 1 ELSE 0)

\* n - 1 (mod 2^64)
Dec64(S) ==
  IF S = {} THEN 0..63
  ELSE LET b == CHOOSE x \in S : \A y \in S : x <= y
       IN (S \ {b}) \cup 0..(b - 1)

\* n + 1 (mod 2^64)
Inc64(S) ==
  IF S = 0..63 THEN {}
  ELSE LET c == CHOOSE x \in 0..63 : x \notin S /\ \A y \in 0..(x - 1) : y \in S
       IN (S \ 0..(c - 1)) \cup {c}

\* n >> s
Shr64(S, s) == {b - s : b \in {x \in S : x >= s}}

nextPowerOf2(n) ==
  IF n = {} THEN {0}
  ELSE LET n0 == Dec64(n)
           n1 == n0 \cup Shr64(n0, 1)
           n2 == n1 \cup Shr64(n1, 2)
           n3 == n2 \cup Shr64(n2, 4)
           n4 == n3 \cup Shr64(n3, 8)
           n5 == n4 \cup Shr64(n4, 16)
           n6 == n5 \cup Shr64(n5, 32)
       IN Inc64(n6)

(***************************************************************************)
(* Filter (unsynchronized)                                                 *)
(***************************************************************************)
\* variant of NewWithParams that falls back to k = 3
NewWithParams_Fallback3(numBlocksIn, kIn) ==
  LET numBlocks == IF numBlocksIn = 0 THEN 1 ELSE numBlocksIn
      kk == IF GetPrimePartition(kIn) = <<>> THEN 3 ELSE kIn
      primes == GetPrimePartition(kk)
  IN [blocks    |-> [w \in 0..(numBlocks * BlockWords - 1) |-> {}],
      numBlocks |-> numBlocks,
      k         |-> kk,
      primes    |-> primes,
      offsets   |-> ComputeOffsets(primes),
      count     |-> 0]

NewWithParams(numBlocksIn, kIn) ==
  LET numBlocks == IF numBlocksIn = 0 THEN 1 ELSE numBlocksIn
      kk == IF GetPrimePartition(kIn) = <<>> THEN 7 ELSE kIn
      primes == GetPrimePartition(kk)
  IN [blocks    |-> [w \in 0..(numBlocks * BlockWords - 1) |-> {}],
      numBlocks |-> numBlocks,
      k         |-> kk,
      primes    |-> primes,
      offsets   |-> ComputeOffsets(primes),
      count     |-> 0]

\* bitPos of probe i (0-based) of the loop body
BitPos(f, intraHash, i) == f.offsets[i + 1] + (intraHash % f.primes[i + 1])

\* variant of FilterSetBit that assigns the mask instead of OR-ing it
FilterSetBit_Assign(f, blockBase, intraHash, i) ==
  LET bitPos == BitPos(f, intraHash, i)
      wordIdx == bitPos \div 64
      bitIdx == bitPos % 64
  IN [f EXCEPT !.blocks[blockBase + wordIdx] = {bitIdx}]

\* variant of FilterSetBit that toggles the bit (^= for |=)
FilterSetBit_Xor(f, blockBase, intraHash, i) ==
  LET bitPos == BitPos(f, intraHash, i)
      wordIdx == bitPos \div 64
      bitIdx == bitPos % 64
      word == f.blocks[blockBase + wordIdx]
  IN [f EXCEPT !.blocks[blockBase + wordIdx] =
        IF bitIdx \in word THEN word \ {bitIdx} ELSE word \cup {bitIdx}]

\* one iteration of the loop of Filter.addWithHash: blocks[...] |= 1 << bitIdx
FilterSetBit(f, blockBase, intraHash, i) ==
  LET bitPos == BitPos(f, intraHash, i)
      wordIdx == bitPos \div 64
      bitIdx == bitPos % 64
  IN [f EXCEPT !.blocks[blockBase + wordIdx] = @ \cup {bitIdx}]

RECURSIVE FilterAddLoop(_, _, _, _)
FilterAddLoop(f, blockBase, intraHash, i) ==
  IF i >= f.k THEN f
  ELSE FilterAddLoop(FilterSetBit(f, blockBase, intraHash, i),
                     blockBase, intraHash, i + 1)

\* variant of FilterAddWithHash that counts only Adds that set a new bit
FilterAddWithHash_CountNew(f, blockIdx, intraHash) ==
  LET g == FilterAddLoop(f, blockIdx * BlockWords, intraHash, 0)
  IN IF g.blocks = f.blocks THEN g ELSE [g EXCEPT !.count = @ + 1]

\* variant of FilterAddWithHash without f.count++
FilterAddWithHash_NoCount(f, blockIdx, intraHash) ==
  FilterAddLoop(f, blockIdx * BlockWords, intraHash, 0)

FilterAddWithHash(f, blockIdx, intraHash) ==
  LET g == FilterAddLoop(f, blockIdx * BlockWords, intraHash, 0)
  IN [g EXCEPT !.count = @ + 1]

\* variant of ProbeBitSet that tests the whole word against 0
ProbeBitSet_Word(f, blockBase, intraHash, i) ==
  LET bitPos == BitPos(f, intraHash, i)
      wordIdx == bitPos \div 64
  IN f.blocks[blockBase + wordIdx] # {}

\* the condition tested in the loop of testWithHash: is the probed bit set
ProbeBitSet(f, blockBase, intraHash, i) ==
  LET bitPos == BitPos(f, intraHash, i)
      wordIdx == bitPos \div 64
      bitIdx == bitPos % 64
  IN bitIdx \in f.blocks[blockBase + wordIdx]

RECURSIVE FilterTestLoop(_, _, _, _)
FilterTestLoop(f, blockBase, intraHash, i) ==
  IF i >= f.k THEN TRUE
  ELSE IF ~ProbeBitSet(f, blockBase, intraHash, i) THEN FALSE
  ELSE FilterTestLoop(f, blockBase, intraHash, i + 1)

FilterTestWithHash(f, blockIdx, intraHash) ==
  FilterTestLoop(f, blockIdx * BlockWords, intraHash, 0)

FilterAdd(f, h) ==
  LET s == hashSplit(h, f.numBlocks)
  IN FilterAddWithHash(f, s.blockIdx, s.intraHash)

FilterTest(f, h) ==
  LET s == hashSplit(h, f.numBlocks)
  IN FilterTestWithHash(f, s.blockIdx, s.intraHash)

\* variant of FilterTestAndAdd that adds whatever the test returned
FilterTestAndAdd_Always(f, h) ==
  LET s == hashSplit(h, f.numBlocks)
      present == FilterTestWithHash(f, s.blockIdx, s.intraHash)
  IN [f   |-> FilterAddWithHash(f, s.blockIdx, s.intraHash),
      ret |-> present]

\* returns [f |-> filter after the call, ret |-> returned value]
FilterTestAndAdd(f, h) ==
  LET s == hashSplit(h, f.numBlocks)
      present == FilterTestWithHash(f, s.blockIdx, s.intraHash)
  IN [f   |-> IF ~present THEN FilterAddWithHash(f, s.blockIdx, s.intraHash) ELSE f,
      ret |-> present]

\* variant of FilterClear that builds the filter anew with the default k
FilterClear_Rebuild(f) == NewWithParams(f.numBlocks, 7)

\* variant of FilterClear that leaves the count
FilterClear_KeepCount(f) ==
  [f EXCEPT !.blocks = [w \in DOMAIN f.blocks |-> {}]]

FilterClear(f) ==
  [f EXCEPT !.blocks = [w \in DOMAIN f.blocks |-> {}], !.count = 0]

(***************************************************************************)
(* Serialization of Filter.  A buffer is a sequence of bytes (0..255);     *)
(* index i of the code is i+1.  An unsigned integer read from a buffer is  *)
(* kept as the sequence of its little-endian bytes, so that every 32-bit   *)
(* and 64-bit field value can be held and compared.                        *)
(***************************************************************************)
serializeVersion == 1
headerSize == 21

NoError == "nil"
ErrInvalidData == "ErrInvalidData"
ErrUnsupportedVersion == "ErrUnsupportedVersion"
ErrInvalidK == "ErrInvalidK"

NilFilter == <<>>

Pow2(t) == CASE t = 0 -> 1 [] t = 1 -> 2 [] t = 2 -> 4 [] t = 3 -> 8
             [] t = 4 -> 16 [] t = 5 -> 32 [] t = 6 -> 64 [] t = 7 -> 128

\* binary.LittleEndian.PutUint32 / PutUint64: the n bytes of v, lowest first
RECURSIVE PutUint(_, _)
PutUint(v, n) == IF n = 0 THEN <<>> ELSE <<v % 256>> \o PutUint(v \div 256, n - 1)

\* the value of the bits S of one byte
RECURSIVE ByteOf(_)
ByteOf(S) ==
  IF S = {} THEN 0
  ELSE LET b == CHOOSE x \in S : TRUE
       IN Pow2(b % 8) + ByteOf(S \ {b})

\* byte j (0..7) of a word of the bit array: bits 8j..8j+7
WordByte(word, j) == ByteOf({b \in word : b \div 8 = j})

\* variant of PutWord that writes the bytes highest first (big-endian)
PutWord_BigEndian(word) == [j \in 1..8 |-> WordByte(word, 8 - j)]

\* binary.LittleEndian.PutUint64 of a word of the bit array
PutWord(word) == [j \in 1..8 |-> WordByte(word, j - 1)]

\* the loop that writes the block data: the bytes of the words in
\* index order
RECURSIVE WriteBlocks(_, _)
WriteBlocks(f, w) ==
  IF w >= f.numBlocks * BlockWords THEN <<>>
  ELSE PutWord(f.blocks[w]) \o WriteBlocks(f, w + 1)

\* Filter.MarshalBinary: the buffer of totalSize bytes and the error
MarshalBinary(f) ==
  LET dataSize == f.numBlocks * BlockWords * 8
      totalSize == headerSize + dataSize
      header == <<serializeVersion>> \o PutUint(f.k, 4)
                  \o PutUint(f.numBlocks, 8) \o PutUint(f.count, 8)
      data == WriteBlocks(f, 0)
  IN [buf |-> [i \in 1..totalSize |->
                 IF i <= headerSize THEN header[i] ELSE data[i - headerSize]],
      err |-> NoError]

\* binary.LittleEndian.Uint32 / Uint64 of data[off : off+n]
Uint(data, off, n) == SubSeq(data, off + 1, off + n)

IsZero(d) == \A i \in 1..Len(d) : d[i] = 0

\* d > e for two unsigned integers of the same width
RECURSIVE Greater(_, _, _)
Greater(d, e, i) ==
  IF i = 0 THEN FALSE
  ELSE IF d[i] # e[i] THEN d[i] > e[i]
  ELSE Greater(d, e, i - 1)

\* the value is below 2^31
Fits(d) == d[4] < 128 /\ \A i \in 5..Len(d) : d[i] = 0

\* the value of an unsigned integer that Fits
Value(d) == d[1] + 256 * d[2] + 65536 * d[3] + 16777216 * d[4]

\* uint64(1) << 50
maxNumBlocks == <<0, 0, 0, 0, 0, 0, 4, 0>>

\* the bits that are set in the byte v
BitsOf(v) == IF v = 0 THEN {} ELSE {t \in 0..7 : (v \div Pow2(t)) % 2 = 1}

\* variant of GetWord that reads the bytes highest first (big-endian)
GetWord_BigEndian(data, off) ==
  UNION {{8 * (7 - j) + t : t \in BitsOf(data[off + j + 1])} : j \in 0..7}

\* binary.LittleEndian.Uint64 as a word of the bit array
GetWord(data, off) ==
  UNION {{8 * j + t : t \in BitsOf(data[off + j + 1])} : j \in 0..7}

\* GetPrimePartition of a 32-bit k: no value from 2^31 on is in the table
PrimesOfK(kd) == IF Fits(kd) THEN GetPrimePartition(Value(kd)) ELSE <<>>

\* variant of LengthMismatch that only refuses a buffer that is too short
LengthMismatch_Short(n, nbd) ==
  \/ ~Fits(nbd)
  \/ Value(nbd) > n \div (BlockWords * 8)
  \/ n < headerSize + Value(nbd) * BlockWords * 8

\* uint64(len(data)) != headerSize + numBlocks*BlockWords*8, for a buffer
\* of fewer than 2^31 bytes and numBlocks <= maxNumBlocks
LengthMismatch(n, nbd) ==
  \/ ~Fits(nbd)
  \/ Value(nbd) > n \div (BlockWords * 8)
  \/ n # headerSize + Value(nbd) * BlockWords * 8

\* variant of NumBlocksError without the check for zero
NumBlocksError_NoZero(nbd) ==
  IF Greater(nbd, maxNumBlocks, 8) THEN ErrInvalidData ELSE NoError

\* the checks of numBlocks in UnmarshalBinary
NumBlocksError(nbd) ==
  IF IsZero(nbd) THEN ErrInvalidData
  ELSE IF Greater(nbd, maxNumBlocks, 8) THEN ErrInvalidData
  ELSE NoError

\* variant of UnmarshalError without the check of the version
UnmarshalError_NoVersion(data) ==
  IF Len(data) < headerSize THEN ErrInvalidData
  ELSE IF PrimesOfK(Uint(data, 1, 4)) = <<>> THEN ErrInvalidK
  ELSE IF NumBlocksError(Uint(data, 5, 8)) # NoError
       THEN NumBlocksError(Uint(data, 5, 8))
  ELSE IF LengthMismatch(Len(data), Uint(data, 5, 8)) THEN ErrInvalidData
  ELSE NoError

\* variant of UnmarshalError that checks k before the version
UnmarshalError_KFirst(data) ==
  IF Len(data) < headerSize THEN ErrInvalidData
  ELSE IF PrimesOfK(Uint(data, 1, 4)) = <<>> THEN ErrInvalidK
  ELSE IF data[1] # serializeVersion THEN ErrUnsupportedVersion
  ELSE IF NumBlocksError(Uint(data, 5, 8)) # NoError
       THEN NumBlocksError(Uint(data, 5, 8))
  ELSE IF LengthMismatch(Len(data), Uint(data, 5, 8)) THEN ErrInvalidData
  ELSE NoError

\* the validation of UnmarshalBinary: the error of the first check that
\* fails, in the order of the code
UnmarshalError(data) ==
  IF Len(data) < headerSize THEN ErrInvalidData
  ELSE IF data[1] # serializeVersion THEN ErrUnsupportedVersion
  ELSE IF PrimesOfK(Uint(data, 1, 4)) = <<>> THEN ErrInvalidK
  ELSE IF NumBlocksError(Uint(data, 5, 8)) # NoError
       THEN NumBlocksError(Uint(data, 5, 8))
  ELSE IF LengthMismatch(Len(data), Uint(data, 5, 8)) THEN ErrInvalidData
  ELSE NoError

\* the loop that reads the block data
ReadBlocks(data, numBlocks) ==
  [w \in 0..(numBlocks * BlockWords - 1) |-> GetWord(data, headerSize + 8 * w)]

\* variant of DecodedFilter that leaves count at zero
DecodedFilter_NoCount(data) ==
  LET kk == Value(Uint(data, 1, 4))
      numBlocks == Value(Uint(data, 5, 8))
      primes == GetPrimePartition(kk)
  IN [blocks    |-> ReadBlocks(data, numBlocks),
      numBlocks |-> numBlocks,
      k         |-> kk,
      primes    |-> primes,
      offsets   |-> ComputeOffsets(primes),
      count     |-> 0]

\* variant of DecodedFilter that takes the widths of the default k
DecodedFilter_DefaultK(data) ==
  LET kk == Value(Uint(data, 1, 4))
      numBlocks == Value(Uint(data, 5, 8))
      primes == GetPrimePartition(7)
  IN [blocks    |-> ReadBlocks(data, numBlocks),
      numBlocks |-> numBlocks,
      k         |-> kk,
      primes    |-> primes,
      offsets   |-> ComputeOffsets(primes),
      count     |-> Value(Uint(data, 13, 8))]

\* the Filter that UnmarshalBinary builds from validated data
DecodedFilter(data) ==
  LET kk == Value(Uint(data, 1, 4))
      numBlocks == Value(Uint(data, 5, 8))
      primes == GetPrimePartition(kk)
  IN [blocks    |-> ReadBlocks(data, numBlocks),
      numBlocks |-> numBlocks,
      k         |-> kk,
      primes    |-> primes,
      offsets   |-> ComputeOffsets(primes),
      count     |-> Value(Uint(data, 13, 8))]

\* variant of UnmarshalBinary that returns the filter read so far together
\* with a length-mismatch error
UnmarshalBinary_Partial(data) ==
  LET err == UnmarshalError(data)
  IN IF err = NoError THEN [filter |-> DecodedFilter(data), err |-> NoError]
     ELSE IF Len(data) >= headerSize /\ data[1] = serializeVersion
             /\ PrimesOfK(Uint(data, 1, 4)) # <<>>
             /\ NumBlocksError(Uint(data, 5, 8)) = NoError
          THEN [filter |-> NewWithParams(1, Value(Uint(data, 1, 4))), err |-> err]
     ELSE [filter |-> NilFilter, err |-> err]

\* UnmarshalBinary: the filter (or nil) and the error
UnmarshalBinary(data) ==
  LET err == UnmarshalError(data)
  IN IF err = NoError THEN [filter |-> DecodedFilter(data), err |-> NoError]
     ELSE [filter |-> NilFilter, err |-> err]

(***************************************************************************)
(* AtomicFilter: every word and the count are independent atomic cells.    *)
(***************************************************************************)
NewAtomicWithParams(numBlocksIn, kIn) ==
  LET numBlocks == IF numBlocksIn = 0 THEN 1 ELSE numBlocksIn
      kk == IF GetPrimePartition(kIn) = <<>> THEN 7 ELSE kIn
      primes == GetPrimePartition(kk)
  IN [blocks    |-> [w \in 0..(numBlocks * BlockWords - 1) |-> {}],
      numBlocks |-> numBlocks,
      k         |-> kk,
      primes    |-> primes,
      offsets   |-> ComputeOffsets(primes),
      count     |-> 0]

\* variant of AtomicOr that toggles the bit (Xor for Or)
AtomicOr_Xor(f, blockBase, intraHash, i) ==
  LET bitPos == BitPos(f, intraHash, i)
      wordIdx == bitPos \div 64
      bitIdx == bitPos % 64
      mask == {bitIdx}
  IN [f EXCEPT !.blocks[blockBase + wordIdx] = (@ \ mask) \cup (mask \ @)]

\* variant of AtomicOr that stores the mask (Store for Or)
AtomicOr_Store(f, blockBase, intraHash, i) ==
  LET bitPos == BitPos(f, intraHash, i)
      wordIdx == bitPos \div 64
      bitIdx == bitPos % 64
      mask == {bitIdx}
  IN [f EXCEPT !.blocks[blockBase + wordIdx] = mask]

\* one iteration of the loop of AtomicFilter.addWithHash: blocks[...].Or(mask)
AtomicOr(f, blockBase, intraHash, i) ==
  LET bitPos == BitPos(f, intraHash, i)
      wordIdx == bitPos \div 64
      bitIdx == bitPos % 64
      mask == {bitIdx}
  IN [f EXCEPT !.blocks[blockBase + wordIdx] = @ \cup mask]

\* f.count.Add(1)
AtomicCountAdd(f) == [f EXCEPT !.count = @ + 1]

\* variant of AtomicLoadBit with the comparison inverted (!= 0 for == 0)
AtomicLoadBit_Inverted(f, blockBase, intraHash, i) ==
  LET bitPos == BitPos(f, intraHash, i)
      wordIdx == bitPos \div 64
      bitIdx == bitPos % 64
  IN bitIdx \notin f.blocks[blockBase + wordIdx]

\* variant of AtomicLoadBit that tests the whole word against 0
AtomicLoadBit_Word(f, blockBase, intraHash, i) ==
  LET bitPos == BitPos(f, intraHash, i)
      wordIdx == bitPos \div 64
  IN f.blocks[blockBase + wordIdx] # {}

\* one iteration of the loop of AtomicFilter.testWithHash:
\* blocks[...].Load() & (1 << bitIdx) != 0
AtomicLoadBit(f, blockBase, intraHash, i) ==
  LET bitPos == BitPos(f, intraHash, i)
      wordIdx == bitPos \div 64
      bitIdx == bitPos % 64
  IN bitIdx \in f.blocks[blockBase + wordIdx]

RECURSIVE AtomicAddLoop(_, _, _, _)
AtomicAddLoop(f, blockBase, intraHash, i) ==
  IF i >= f.k THEN f
  ELSE AtomicAddLoop(AtomicOr(f, blockBase, intraHash, i),
                     blockBase, intraHash, i + 1)

\* addWithHash run without interruption
AtomicAddWithHash(f, blockIdx, intraHash) ==
  AtomicCountAdd(AtomicAddLoop(f, blockIdx * BlockWords, intraHash, 0))

RECURSIVE AtomicTestLoop(_, _, _, _)
AtomicTestLoop(f, blockBase, intraHash, i) ==
  IF i >= f.k THEN TRUE
  ELSE IF ~AtomicLoadBit(f, blockBase, intraHash, i) THEN FALSE
  ELSE AtomicTestLoop(f, blockBase, intraHash, i + 1)

\* testWithHash run without interruption
AtomicTestWithHash(f, blockIdx, intraHash) ==
  AtomicTestLoop(f, blockIdx * BlockWords, intraHash, 0)

AtomicAdd(f, h) ==
  LET s == hashSplit(h, f.numBlocks)
  IN AtomicAddWithHash(f, s.blockIdx, s.intraHash)

AtomicTest(f, h) ==
  LET s == hashSplit(h, f.numBlocks)
  IN AtomicTestWithHash(f, s.blockIdx, s.intraHash)

\* variant of AtomicTestAndAdd that adds only when the test failed
AtomicTestAndAdd_IfAbsent(f, h) ==
  LET s == hashSplit(h, f.numBlocks)
      present == AtomicTestWithHash(f, s.blockIdx, s.intraHash)
  IN [f   |-> IF ~present THEN AtomicAddWithHash(f, s.blockIdx, s.intraHash) ELSE f,
      ret |-> present]

AtomicTestAndAdd(f, h) ==
  LET s == hashSplit(h, f.numBlocks)
      present == AtomicTestWithHash(f, s.blockIdx, s.intraHash)
  IN [f   |-> AtomicAddWithHash(f, s.blockIdx, s.intraHash),
      ret |-> present]

\* variant of AtomicStoreZero for a loop that starts at word 1
AtomicStoreZero_SkipFirst(f, w) ==
  IF w = 0 THEN f ELSE [f EXCEPT !.blocks[w] = {}]

\* blocks[i].Store(0): one step of the loop of AtomicFilter.Clear
AtomicStoreZero(f, w) == [f EXCEPT !.blocks[w] = {}]

\* f.count.Store(0)
AtomicCountStoreZero(f) == [f EXCEPT !.count = 0]

RECURSIVE AtomicClearLoop(_, _)
AtomicClearLoop(f, w) ==
  IF w >= f.numBlocks * BlockWords THEN f
  ELSE AtomicClearLoop(AtomicStoreZero(f, w), w + 1)

\* Clear run without interruption
AtomicClear(f) == AtomicCountStoreZero(AtomicClearLoop(f, 0))

(***************************************************************************)
(* ShardedAtomicFilter                                                     *)
(***************************************************************************)
\* NewShardedAtomic: every shard is NewAtomic(itemsPerShard, fpRate), i.e.
\* NewAtomicWithParams on the (numBlocks, k) that OptimalParams returns for
\* those two arguments; the same pair for every shard.
\* numShards and mask of NewShardedAtomic for the uint64 numShards, and
\* whether itemsPerShard := (expectedItems + numShards - 1) / numShards
\* divides by zero
ShardCount64(numShardsIn) ==
  LET numShards == nextPowerOf2(numShardsIn)
  IN [numShards |-> numShards, mask |-> Dec64(numShards), panics |-> numShards = {}]

\* the same for a shard count below 2^30
ShardCount(numShardsIn) ==
  LET c == ShardCount64(Word64(numShardsIn))
  IN [numShards |-> NatOf(c.numShards), mask |-> NatOf(c.mask)]

NewShardedAtomic(numBlocksPerShard, kk, numShardsIn) ==
  LET c == ShardCount(numShardsIn)
  IN [shards    |-> [i \in 1..c.numShards |-> NewAtomicWithParams(numBlocksPerShard, kk)],
      numShards |-> c.numShards,
      mask      |-> c.mask]

shardIndex(sf, h) == BitAnd(h.hi, sf.mask)

ShardedAdd(sf, h) ==
  LET idx == shardIndex(sf, h) + 1
      shard == sf.shards[idx]
      s == hashSplitSharded(h, shard.numBlocks)
  IN [sf EXCEPT !.shards[idx] = AtomicAddWithHash(shard, s.blockIdx, s.intraHash)]

\* variant of ShardedTest that takes the block from hashSplit
ShardedTest_OtherSplit(sf, h) ==
  LET idx == shardIndex(sf, h) + 1
      shard == sf.shards[idx]
      s == hashSplit(h, shard.numBlocks)
  IN AtomicTestWithHash(shard, s.blockIdx, s.intraHash)

ShardedTest(sf, h) ==
  LET idx == shardIndex(sf, h) + 1
      shard == sf.shards[idx]
      s == hashSplitSharded(h, shard.numBlocks)
  IN AtomicTestWithHash(shard, s.blockIdx, s.intraHash)

ShardedTestAndAdd(sf, h) ==
  LET idx == shardIndex(sf, h) + 1
      shard == sf.shards[idx]
      s == hashSplitSharded(h, shard.numBlocks)
      present == AtomicTestWithHash(shard, s.blockIdx, s.intraHash)
  IN [f   |-> [sf EXCEPT !.shards[idx] = AtomicAddWithHash(shard, s.blockIdx, s.intraHash)],
      ret |-> present]

RECURSIVE ShardedClearLoop(_, _)
ShardedClearLoop(sf, i) ==
  IF i > sf.numShards THEN sf
  ELSE ShardedClearLoop([sf EXCEPT !.shards[i] = AtomicClear(@)], i + 1)

ShardedClear(sf) == ShardedClearLoop(sf, 1)

RECURSIVE ShardedCountLoop(_, _)
ShardedCountLoop(sf, i) ==
  IF i > sf.numShards THEN 0
  ELSE sf.shards[i].count + ShardedCountLoop(sf, i + 1)

\* variant of ShardedCount that leaves out the first shard
ShardedCount_SkipFirst(sf) == ShardedCountLoop(sf, 2)

ShardedCount(sf) == ShardedCountLoop(sf, 1)

(***************************************************************************)
(* Statistics                                                              *)
(***************************************************************************)
RECURSIVE SetBitsLoop(_, _)
SetBitsLoop(f, w) ==
  IF w >= f.numBlocks * BlockWords THEN 0
  ELSE Cardinality(f.blocks[w]) + SetBitsLoop(f, w + 1)

\* EstimatedFillRatio as the fraction <<setBits, numBlocks*BlockBits>>
FilterEstimatedFillRatio(f) == <<SetBitsLoop(f, 0), f.numBlocks * BlockBits>>

AtomicEstimatedFillRatio(f) == <<SetBitsLoop(f, 0), f.numBlocks * BlockBits>>

AtomicCap(f) == f.numBlocks * BlockBits

\* uint64(float64(cap) * (float64(setBits) / float64(cap))): the product of
\* the rounded quotient is within one ulp of setBits, so the truncation is
\* setBits or setBits - 1; a zero quotient gives exactly 0.
TruncBack(setBits) == IF setBits = 0 THEN {0} ELSE {setBits - 1, setBits}

RECURSIVE ShardedSetBits(_, _)
ShardedSetBits(sf, i) ==
  IF i > sf.numShards THEN {0}
  ELSE {a + b : a \in TruncBack(AtomicEstimatedFillRatio(sf.shards[i])[1]),
                b \in ShardedSetBits(sf, i + 1)}

RECURSIVE ShardedCapLoop(_, _)
ShardedCapLoop(sf, i) ==
  IF i > sf.numShards THEN 0
  ELSE AtomicCap(sf.shards[i]) + ShardedCapLoop(sf, i + 1)

ShardedCap(sf) == ShardedCapLoop(sf, 1)

\* the set of fractions EstimatedFillRatio can return
ShardedEstimatedFillRatio(sf) ==
  {<<n, ShardedCap(sf)>> : n \in ShardedSetBits(sf, 1)}

(***************************************************************************)
(* Keys: 64-bit hash values as [hi, lo].  A and B share words of block 0;  *)
(* C has, for k = 3, every probe bit in common with A or B; D and E select *)
(* other blocks and shards (and alias A when there is one block).          *)
(***************************************************************************)
KeyA == [hi |-> 0, lo |-> 0]
KeyB == [hi |-> 0, lo |-> 1]
KeyC == [hi |-> 0, lo |-> 3808769]
KeyD == [hi |-> 1, lo |-> 0]
KeyE == [hi |-> 65536, lo |-> 0]

Keys == {KeyA, KeyB, KeyC, KeyD, KeyE}

Variants == {"Filter", "Atomic", "Sharded"}

\* k arguments given to the constructors: 2 and 15 are unsupported
KInputs == 2..15

(***************************************************************************)
(* Calls of the public API, dispatched on the variant of the filter.       *)
(***************************************************************************)
Test(v, f, h) ==
  CASE v = "Filter"  -> FilterTest(f, h)
    [] v = "Atomic"  -> AtomicTest(f, h)
    [] v = "Sharded" -> ShardedTest(f, h)

Count(v, f) ==
  CASE v = "Filter"  -> f.count
    [] v = "Atomic"  -> f.count
    [] v = "Sharded" -> ShardedCount(f)

EstimatedFillRatio(v, f) ==
  CASE v = "Filter"  -> {FilterEstimatedFillRatio(f)}
    [] v = "Atomic"  -> {AtomicEstimatedFillRatio(f)}
    [] v = "Sharded" -> ShardedEstimatedFillRatio(f)

\* the filters that hold a bit array: the filter itself, or every shard
Parts(v, f) ==
  IF v = "Sharded" THEN {f.shards[i] : i \in 1..f.numShards} ELSE {f}

AllZero(v, f) ==
  \A g \in Parts(v, f) : \A w \in DOMAIN g.blocks : g.blocks[w] = {}

(***************************************************************************)
(* Sequential use: one caller, every call runs to completion.              *)
(* added is the set of keys whose Add or TestAndAdd has returned since     *)
(* construction or the last Clear; last is the call made by the step.      *)
(***************************************************************************)
NoThreads == [t \in {} |-> 0]

\* no buffer has been produced by MarshalBinary
NoWire == [buf |-> <<>>, keys |-> {}, edits |-> "none", decoded |-> FALSE]

\* a call made by a step: its name, key, returned value (FALSE when it
\* returns nothing) and Count() of the filter before it
Call(op, h, ret, pre) == [op |-> op, key |-> h, ret |-> ret, pre |-> pre]

\* a call of a constructor with the arguments numBlocks and k
New(numBlocksIn, kIn) ==
  [op |-> "New", key |-> KeyA, ret |-> FALSE, pre |-> 0,
   numBlocks |-> numBlocksIn, k |-> kIn]

InitSeq ==
  /\ variant \in Variants
  /\ \/ /\ variant = "Filter"
        /\ \E nb \in 0..MaxBlocks, kk \in KInputs :
             /\ filter = NewWithParams(nb, kk)
             /\ last = New(nb, kk)
     \/ /\ variant = "Atomic"
        /\ \E nb \in 0..MaxBlocks, kk \in KInputs :
             /\ filter = NewAtomicWithParams(nb, kk)
             /\ last = New(nb, kk)
     \/ /\ variant = "Sharded"
        /\ \E nb \in 1..MaxBlocks, kk \in 3..14, ns \in 0..MaxShardsIn :
             /\ filter = NewShardedAtomic(nb, kk, ns)
             /\ last = New(nb, kk)
  /\ added = {}
  /\ threads = NoThreads
  /\ started = 0
  /\ issued = 0
  /\ overlap = {}
  /\ wire = NoWire

SeqFrame == UNCHANGED <<variant, threads, started, issued, overlap, wire>>

FilterAddCall(h) ==
  /\ variant = "Filter"
  /\ filter.count < MaxCount
  /\ filter' = FilterAdd(filter, h)
  /\ added' = added \cup {h}
  /\ last' = Call("Add", h, FALSE, filter.count)
  /\ SeqFrame

FilterTestCall(h) ==
  /\ variant = "Filter"
  /\ last' = Call("Test", h, FilterTest(filter, h), filter.count)
  /\ UNCHANGED <<filter, added>>
  /\ SeqFrame

FilterTestAndAddCall(h) ==
  /\ variant = "Filter"
  /\ filter.count < MaxCount
  /\ LET r == FilterTestAndAdd(filter, h)
     IN /\ filter' = r.f
        /\ last' = Call("TestAndAdd", h, r.ret, filter.count)
  /\ added' = added \cup {h}
  /\ SeqFrame

FilterClearCall ==
  /\ variant = "Filter"
  /\ filter' = FilterClear(filter)
  /\ added' = {}
  /\ last' = Call("Clear", KeyA, FALSE, filter.count)
  /\ SeqFrame

AtomicAddCall(h) ==
  /\ variant = "Atomic"
  /\ filter.count < MaxCount
  /\ filter' = AtomicAdd(filter, h)
  /\ added' = added \cup {h}
  /\ last' = Call("Add", h, FALSE, filter.count)
  /\ SeqFrame

AtomicTestCall(h) ==
  /\ variant = "Atomic"
  /\ last' = Call("Test", h, AtomicTest(filter, h), filter.count)
  /\ UNCHANGED <<filter, added>>
  /\ SeqFrame

AtomicTestAndAddCall(h) ==
  /\ variant = "Atomic"
  /\ filter.count < MaxCount
  /\ LET r == AtomicTestAndAdd(filter, h)
     IN /\ filter' = r.f
        /\ last' = Call("TestAndAdd", h, r.ret, filter.count)
  /\ added' = added \cup {h}
  /\ SeqFrame

AtomicClearCall ==
  /\ variant = "Atomic"
  /\ filter' = AtomicClear(filter)
  /\ added' = {}
  /\ last' = Call("Clear", KeyA, FALSE, filter.count)
  /\ SeqFrame

ShardedAddCall(h) ==
  /\ variant = "Sharded"
  /\ ShardedCount(filter) < MaxCount
  /\ filter' = ShardedAdd(filter, h)
  /\ added' = added \cup {h}
  /\ last' = Call("Add", h, FALSE, ShardedCount(filter))
  /\ SeqFrame

ShardedTestCall(h) ==
  /\ variant = "Sharded"
  /\ last' = Call("Test", h, ShardedTest(filter, h), ShardedCount(filter))
  /\ UNCHANGED <<filter, added>>
  /\ SeqFrame

ShardedTestAndAddCall(h) ==
  /\ variant = "Sharded"
  /\ ShardedCount(filter) < MaxCount
  /\ LET r == ShardedTestAndAdd(filter, h)
     IN /\ filter' = r.f
        /\ last' = Call("TestAndAdd", h, r.ret, ShardedCount(filter))
  /\ added' = added \cup {h}
  /\ SeqFrame

ShardedClearCall ==
  /\ variant = "Sharded"
  /\ filter' = ShardedClear(filter)
  /\ added' = {}
  /\ last' = Call("Clear", KeyA, FALSE, ShardedCount(filter))
  /\ SeqFrame

Next ==
  \/ \E h \in Keys : FilterAddCall(h)
  \/ \E h \in Keys : FilterTestCall(h)
  \/ \E h \in Keys : FilterTestAndAddCall(h)
  \/ FilterClearCall
  \/ \E h \in Keys : AtomicAddCall(h)
  \/ \E h \in Keys : AtomicTestCall(h)
  \/ \E h \in Keys : AtomicTestAndAddCall(h)
  \/ AtomicClearCall
  \/ \E h \in Keys : ShardedAddCall(h)
  \/ \E h \in Keys : ShardedTestCall(h)
  \/ \E h \in Keys : ShardedTestAndAddCall(h)
  \/ ShardedClearCall

Spec == InitSeq /\ [][Next]_vars

(***************************************************************************)
(* Properties of sequential use (specification Spec).                      *)
(***************************************************************************)
\* the bit arrays of the filter: its words, or the words of every shard
Bits(v, f) ==
  IF v = "Sharded" THEN [i \in 1..f.numShards |-> f.shards[i].blocks]
  ELSE f.blocks

\* configuration that construction fixes
Config(v, f) ==
  IF v = "Sharded"
  THEN <<f.numShards, f.mask,
         [i \in 1..f.numShards |->
            <<f.shards[i].k, f.shards[i].numBlocks,
              f.shards[i].primes, f.shards[i].offsets>>]>>
  ELSE <<f.k, f.numBlocks, f.primes, f.offsets>>

\* every probe bit of key h is set in the block that hashSplit selects
FilterProbesSet(f, h) ==
  LET s == hashSplit(h, f.numBlocks)
  IN \A i \in 0..(f.k - 1) :
       LET bitPos == f.offsets[i + 1] + (s.intraHash % f.primes[i + 1])
       IN (bitPos % 64) \in f.blocks[s.blockIdx * BlockWords + (bitPos \div 64)]

C5_FilterTestAndAdd ==
  [][(variant = "Filter" /\ last'.op = "TestAndAdd") =>
       LET h == last'.key
           present == FilterTest(filter, h)
       IN /\ last'.ret = present
          /\ present => filter' = filter
          /\ ~present => /\ filter'.count = filter.count + 1
                         /\ FilterProbesSet(filter', h)
                         /\ filter'.blocks # filter.blocks
          /\ FilterTestAndAdd(filter', h).ret]_vars

\* C5 witness: TestAndAdd of a key that was never added but tests present
\* (its probe bits are those of other keys) returned true and added nothing
C5_Witness ==
  /\ variant = "Filter"
  /\ last.op = "TestAndAdd"
  /\ last.key = KeyC
  /\ last.ret
  /\ filter.count = 2
  /\ added = {KeyA, KeyB, KeyC}

C8_ClearResets ==
  [][last'.op = "Clear" =>
       /\ AllZero(variant', filter')
       /\ Count(variant', filter') = 0
       /\ \A r \in EstimatedFillRatio(variant', filter') : r[1] = 0 /\ r[2] > 0
       /\ \A h \in Keys : ~Test(variant', filter', h)
       /\ Config(variant', filter') = Config(variant, filter)
       /\ variant' = variant]_vars

\* C8 witness: a Clear of a sharded filter that held adds in both shards
C8_Witness ==
  /\ last.op = "Clear"
  /\ last.pre >= 2
  /\ variant = "Sharded"
  /\ filter.numShards = 2
  /\ AllZero(variant, filter)

\* C10: an Add of a key that was already added leaves the bit array as it
\* was and the key testing true, and still increases count by 1.
C10_AddIdempotentOnBits ==
  [][(last'.op = "Add" /\ last'.key \in added) =>
       /\ Bits(variant', filter') = Bits(variant, filter)
       /\ Test(variant', filter', last'.key)
       /\ Count(variant', filter') = Count(variant, filter) + 1]_vars

\* C10 witness: the same key added three times
C10_Witness ==
  /\ last.op = "Add"
  /\ added = {last.key}
  /\ Count(variant, filter) = 3
  /\ variant \in {"Filter", "Atomic"}

(***************************************************************************)
(* Concurrent use of AtomicFilter and ShardedAtomicFilter: NumThreads      *)
(* callers, each step is one atomic access (a Load, an Or, the count       *)
(* Add, a Store); the hashing that starts a call is local and is part of   *)
(* the step of its first access.  A thread record holds the call in        *)
(* progress: its pc, the loop index i of the next access, the result of    *)
(* its test (present), and guar: whether an Add or TestAndAdd of the same  *)
(* key had returned before the call began.  started counts the calls       *)
(* begun, issued the Add and TestAndAdd calls among them; overlap records  *)
(* which kinds of calls have been in flight together.                      *)
(***************************************************************************)
Threads == 1..NumThreads

ConcKeys == {KeyA, KeyB, KeyD}

IdleThread ==
  [pc |-> "idle", op |-> "none", key |-> KeyA, i |-> 0,
   present |-> FALSE, guar |-> FALSE]

InFlight(u) == threads[u].pc # "idle"

Quiescent == \A t \in Threads : ~InFlight(t)

\* the AtomicFilter a call on key h works on
ShardOf(h) ==
  IF variant = "Sharded" THEN filter.shards[shardIndex(filter, h) + 1] ELSE filter

WithShard(h, g) ==
  IF variant = "Sharded"
  THEN [filter EXCEPT !.shards[shardIndex(filter, h) + 1] = g]
  ELSE g

\* blockBase of the call on key h
BlockBase(h) ==
  IF variant = "Sharded"
  THEN hashSplitSharded(h, ShardOf(h).numBlocks).blockIdx * BlockWords
  ELSE hashSplit(h, filter.numBlocks).blockIdx * BlockWords

\* the callers start on a filter as constructed or after a first Add
InitThreads(new) ==
  /\ \/ filter = new /\ added = {} /\ issued = 0
     \/ \E h \in ConcKeys :
          /\ filter = (IF variant = "Sharded" THEN ShardedAdd(new, h) ELSE AtomicAdd(new, h))
          /\ added = {h}
          /\ issued = 1
  /\ last = Call("New", KeyA, FALSE, 0)
  /\ threads = [t \in Threads |-> IdleThread]
  /\ started = 0
  /\ overlap = {}
  /\ wire = NoWire

InitConc ==
  /\ variant \in {"Atomic", "Sharded"}
  /\ \/ /\ variant = "Atomic"
        /\ \E nb \in 1..MaxBlocks : InitThreads(NewAtomicWithParams(nb, ConcK))
     \/ /\ variant = "Sharded"
        /\ InitThreads(NewShardedAtomic(1, ConcK, MaxShardsIn))

\* the thread record of a call on key h that has made its first access
Begun(op, h, pc, i, present) ==
  [pc |-> pc, op |-> op, key |-> h, i |-> i, present |-> present,
   guar |-> h \in added]

OverlapAtBegin(t, op) ==
  overlap \cup
    (IF op \in {"Add", "TestAndAdd"} /\
        \E u \in Threads \ {t} : InFlight(u) /\ threads[u].op \in {"Add", "TestAndAdd"}
     THEN {"adds"} ELSE {}) \cup
    (IF \/ /\ op = "Clear"
           /\ \E u \in Threads \ {t} :
                InFlight(u) /\ threads[u].op \in {"Add", "TestAndAdd"}
        \/ /\ op \in {"Add", "TestAndAdd"}
           /\ \E u \in Threads \ {t} : InFlight(u) /\ threads[u].op = "Clear"
     THEN {"clear"} ELSE {})

\* variant of AfterOr that goes on to count.Add(1) after the first Or
AfterOr_Early(th, f, i) == [th EXCEPT !.pc = "count", !.i = 0]

\* the thread after the atomic Or of probe i of its call
AfterOr(th, f, i) ==
  IF i + 1 >= f.k THEN [th EXCEPT !.pc = "count", !.i = 0]
  ELSE [th EXCEPT !.pc = "add", !.i = i + 1]

\* the thread after the atomic Load of probe i of its call found the bit
\* set or not: Test returns when the loop ends, TestAndAdd goes on to
\* addWithHash
AfterLoad(th, f, i, set) ==
  IF set /\ i + 1 < f.k THEN [th EXCEPT !.pc = "test", !.i = i + 1]
  ELSE IF th.op = "Test" THEN IdleThread
  ELSE [th EXCEPT !.pc = "add", !.i = 0, !.present = set]

\* Add begins: hash and first Or
BeginAdd(t, h) ==
  LET f == ShardOf(h)
  IN /\ ~InFlight(t)
     /\ started < MaxStarted
     /\ filter' = WithShard(h, AtomicOr(f, BlockBase(h), h.lo, 0))
     /\ threads' = [threads EXCEPT ![t] = AfterOr(Begun("Add", h, "add", 0, FALSE), f, 0)]
     /\ started' = started + 1
     /\ issued' = issued + 1
     /\ overlap' = OverlapAtBegin(t, "Add")
     /\ UNCHANGED <<wire, variant, added, last>>

\* Test begins: hash and first Load
BeginTest(t, h) ==
  LET f == ShardOf(h)
      set == AtomicLoadBit(f, BlockBase(h), h.lo, 0)
  IN /\ ~InFlight(t)
     /\ started < MaxStarted
     /\ threads' = [threads EXCEPT ![t] =
                      AfterLoad(Begun("Test", h, "test", 0, FALSE), f, 0, set)]
     /\ started' = started + 1
     /\ UNCHANGED <<wire, variant, filter, added, last, issued, overlap>>

\* TestAndAdd begins: hash and first Load
BeginTestAndAdd(t, h) ==
  LET f == ShardOf(h)
      set == AtomicLoadBit(f, BlockBase(h), h.lo, 0)
  IN /\ ~InFlight(t)
     /\ started < MaxStarted
     /\ threads' = [threads EXCEPT ![t] =
                      AfterLoad(Begun("TestAndAdd", h, "test", 0, FALSE), f, 0, set)]
     /\ started' = started + 1
     /\ issued' = issued + 1
     /\ overlap' = OverlapAtBegin(t, "TestAndAdd")
     /\ UNCHANGED <<wire, variant, filter, added, last>>

\* a further iteration of testWithHash: an atomic Load and the test of the bit
LoadStep(t) ==
  LET th == threads[t]
      f == ShardOf(th.key)
      set == AtomicLoadBit(f, BlockBase(th.key), th.key.lo, th.i)
  IN /\ th.pc = "test"
     /\ threads' = [threads EXCEPT ![t] = AfterLoad(th, f, th.i, set)]
     /\ UNCHANGED <<wire, variant, filter, added, last, started, issued, overlap>>

\* variant of OrStep that waits until no other thread is inside addWithHash
OrStep_Locked(t) ==
  LET th == threads[t]
      f == ShardOf(th.key)
  IN /\ th.pc = "add"
     /\ \A u \in Threads \ {t} : threads[u].pc \notin {"add", "count"}
     /\ filter' = WithShard(th.key, AtomicOr(f, BlockBase(th.key), th.key.lo, th.i))
     /\ threads' = [threads EXCEPT ![t] = AfterOr(th, f, th.i)]
     /\ UNCHANGED <<wire, variant, added, last, started, issued, overlap>>

\* a further iteration of addWithHash: an atomic Or
OrStep(t) ==
  LET th == threads[t]
      f == ShardOf(th.key)
  IN /\ th.pc = "add"
     /\ filter' = WithShard(th.key, AtomicOr(f, BlockBase(th.key), th.key.lo, th.i))
     /\ threads' = [threads EXCEPT ![t] = AfterOr(th, f, th.i)]
     /\ UNCHANGED <<wire, variant, added, last, started, issued, overlap>>

\* count.Add(1), after which the call returns (TestAndAdd returns present)
CountStep(t) ==
  LET th == threads[t]
  IN /\ th.pc = "count"
     /\ filter' = WithShard(th.key, AtomicCountAdd(ShardOf(th.key)))
     /\ threads' = [threads EXCEPT ![t] = IdleThread]
     /\ added' = added \cup {th.key}
     /\ UNCHANGED <<wire, variant, last, started, issued, overlap>>

NextConc ==
  \/ \E t \in Threads, h \in ConcKeys : BeginAdd(t, h)
  \/ \E t \in Threads, h \in ConcKeys : BeginTest(t, h)
  \/ \E t \in Threads, h \in ConcKeys : BeginTestAndAdd(t, h)
  \/ \E t \in Threads : LoadStep(t)
  \/ \E t \in Threads : OrStep(t)
  \/ \E t \in Threads : CountStep(t)

SpecConc == InitConc /\ [][NextConc]_vars

(***************************************************************************)
(* Concurrent use with AtomicFilter.Clear among the calls.                 *)
(***************************************************************************)
InitClear ==
  /\ variant = "Atomic"
  /\ InitThreads(NewAtomicWithParams(1, ConcK))

\* the thread after blocks[w].Store(0) of its Clear
AfterStore(th, f, w) ==
  IF w + 1 >= f.numBlocks * BlockWords THEN [th EXCEPT !.pc = "clearcount", !.i = 0]
  ELSE [th EXCEPT !.pc = "clear", !.i = w + 1]

\* Clear begins: the first Store(0)
BeginClear(t) ==
  /\ variant = "Atomic"
  /\ ~InFlight(t)
  /\ started < MaxStarted
  /\ filter' = AtomicStoreZero(filter, 0)
  /\ threads' = [threads EXCEPT ![t] =
                   AfterStore(Begun("Clear", KeyA, "clear", 0, FALSE), filter, 0)]
  /\ started' = started + 1
  /\ overlap' = OverlapAtBegin(t, "Clear")
  /\ UNCHANGED <<wire, variant, added, last, issued>>

\* a further iteration of the loop of Clear: blocks[i].Store(0)
ClearStoreStep(t) ==
  LET th == threads[t]
  IN /\ th.pc = "clear"
     /\ filter' = AtomicStoreZero(filter, th.i)
     /\ threads' = [threads EXCEPT ![t] = AfterStore(th, filter, th.i)]
     /\ UNCHANGED <<wire, variant, added, last, started, issued, overlap>>

\* count.Store(0), after which Clear returns
ClearCountStep(t) ==
  LET th == threads[t]
  IN /\ th.pc = "clearcount"
     /\ filter' = AtomicCountStoreZero(filter)
     /\ threads' = [threads EXCEPT ![t] = IdleThread]
     /\ added' = {}
     /\ UNCHANGED <<wire, variant, last, started, issued, overlap>>

NextClear ==
  \/ \E t \in Threads, h \in ConcKeys : BeginAdd(t, h)
  \/ \E t \in Threads, h \in ConcKeys : BeginTest(t, h)
  \/ \E t \in Threads, h \in ConcKeys : BeginTestAndAdd(t, h)
  \/ \E t \in Threads : LoadStep(t)
  \/ \E t \in Threads : OrStep(t)
  \/ \E t \in Threads : CountStep(t)
  \/ \E t \in Threads : BeginClear(t)
  \/ \E t \in Threads : ClearStoreStep(t)
  \/ \E t \in Threads : ClearCountStep(t)

SpecClear == InitClear /\ [][NextClear]_vars

(***************************************************************************)
(* Properties of concurrent use (specifications SpecConc and SpecClear).   *)
(***************************************************************************)
\* the bit array that OR-ing the probe masks of the keys ks into the
\* all-zero array of AtomicFilter f gives
MaskUnion(f, ks) ==
  [w \in DOMAIN f.blocks |->
     {b \in 0..63 :
        \E h \in ks, i \in 0..(f.k - 1) :
          LET s == hashSplit(h, f.numBlocks)
              bitPos == f.offsets[i + 1] + (s.intraHash % f.primes[i + 1])
          IN /\ w = s.blockIdx * BlockWords + (bitPos \div 64)
             /\ b = bitPos % 64}]

RECURSIVE AddAll(_, _)
AddAll(f, hs) ==
  IF hs = <<>> THEN f ELSE AddAll(AtomicAdd(f, Head(hs)), Tail(hs))

\* the orders in which the keys ks can be added one after another
Orders(ks) ==
  {hs \in [1..Cardinality(ks) -> ks] : \A h \in ks : \E j \in DOMAIN hs : hs[j] = h}

\* the next Load of thread t finds its bit set
NextLoadSet(t) ==
  AtomicLoadBit(ShardOf(threads[t].key), BlockBase(threads[t].key),
                threads[t].key.lo, threads[t].i)

\* C2: with concurrent Add/Test/TestAndAdd and no Clear, a Test that began
\* after an Add of its key had returned never loads an unset bit, so it
\* returns true, and every key whose Add has returned keeps testing true
\* while other calls are in flight.
C2_NoFalseNegativesConcurrent ==
  /\ \A t \in Threads :
       (threads[t].op = "Test" /\ threads[t].pc = "test" /\ threads[t].guar)
         => NextLoadSet(t)
  /\ \A h \in added : Test(variant, filter, h)

\* C2 witness: a Test of an added key has found all bits but the last set
\* and is about to load the last one, while the Add of another key of the
\* same words has set some but not all of its bits
C2_Witness ==
  \E t, u \in Threads :
    /\ threads[t].op = "Test" /\ threads[t].pc = "test" /\ threads[t].guar
    /\ threads[t].key = KeyA
    /\ threads[t].i = ShardOf(KeyA).k - 1
    /\ NextLoadSet(t)
    /\ threads[u].op = "Add" /\ threads[u].pc = "add"
    /\ threads[u].key = KeyB
    /\ BlockBase(KeyA) = BlockBase(KeyB)
    /\ ShardOf(KeyA) = ShardOf(KeyB)

\* C3: once all concurrently run Adds of an AtomicFilter have returned, the
\* bit array is the OR of the initial array with the probe masks of the
\* added keys, which is what adding them in any sequential order gives.
C3_NoLostBits ==
  (variant = "Atomic" /\ Quiescent) =>
     /\ filter.blocks = MaskUnion(filter, added)
     /\ \A hs \in Orders(added) :
          filter.blocks = AddAll(NewAtomicWithParams(filter.numBlocks, filter.k), hs).blocks

\* C3 witness: two Adds of keys that share words ran at the same time and
\* have both returned
C3_Witness ==
  /\ variant = "Atomic"
  /\ Quiescent
  /\ "adds" \in overlap
  /\ started = 2 /\ issued = 2
  /\ added = {KeyA, KeyB}

\* C4: with no Clear, once all concurrently issued Add/TestAndAdd calls
\* have returned, Count() is the count before them plus their number; for
\* the sharded filter the sum over the shards.
C4_CountExact ==
  Quiescent => Count(variant, filter) = issued

\* C4 witness: calls that ran at the same time on two shards of a sharded
\* filter have all returned
C4_Witness ==
  /\ Quiescent
  /\ "adds" \in overlap
  /\ started = MaxStarted
  /\ issued >= 2
  /\ variant = "Sharded"
  /\ filter.numShards >= 2
  /\ \A i \in 1..2 : filter.shards[i].count >= 1

\* the test of the TestAndAdd of thread t is over and gave the value r
Tested(t, r) ==
  /\ threads[t].op = "TestAndAdd"
  /\ threads[t].pc \in {"add", "count"}
  /\ threads[t].present = r

\* C7: the test of a TestAndAdd gives false only when no Add or TestAndAdd
\* of its key had returned before the call began: two false answers for
\* one key come from calls that ran in each other's window between test
\* and add.
C7_TestAndAddWindow ==
  \A t \in Threads : Tested(t, FALSE) => ~threads[t].guar

\* C7 witness: two TestAndAdd calls of the same key have both set all bits
\* and are both about to return false
C7_Witness ==
  /\ variant = "Atomic"
  /\ \E t, u \in Threads :
       /\ t # u
       /\ Tested(t, FALSE) /\ Tested(u, FALSE)
       /\ threads[t].pc = "count" /\ threads[u].pc = "count"
       /\ threads[t].key = threads[u].key

\* the states C9 calls corrupted: a key whose Add returned tests false while
\* Count() >= 1, or bits are set while Count() = 0
CountWithoutBits == filter.count >= 1 /\ \E h \in added : ~AtomicTest(filter, h)

BitsWithoutCount == filter.count = 0 /\ ~AllZero(variant, filter)

\* C9: after all calls have returned, an AtomicFilter is in a corrupted
\* state only if a Clear was in flight together with an Add or TestAndAdd.
C9_ClearUnsafe ==
  (Quiescent /\ (CountWithoutBits \/ BitsWithoutCount)) => "clear" \in overlap

\* C9 witness: a Clear and an Add that overlapped have both returned, and
\* Count() >= 1 while the added key tests false
C9_Witness ==
  /\ Quiescent
  /\ started = 2 /\ issued = 1
  /\ "clear" \in overlap
  /\ CountWithoutBits

\* the other corrupted state of C9: bits set while Count() = 0
C9_WitnessBits ==
  /\ Quiescent
  /\ started = 2 /\ issued = 1
  /\ "clear" \in overlap
  /\ BitsWithoutCount

(***************************************************************************)
(* Use of any variant: a Filter is used by one caller; an AtomicFilter or  *)
(* a ShardedAtomicFilter by NumThreads callers, whose calls may or may not *)
(* overlap.                                                                *)
(***************************************************************************)
InitAny ==
  \/ InitSeq /\ variant = "Filter"
  \/ InitConc /\ issued = 0

NextAny ==
  \/ \E h \in Keys : FilterAddCall(h)
  \/ \E h \in Keys : FilterTestCall(h)
  \/ \E h \in Keys : FilterTestAndAddCall(h)
  \/ FilterClearCall
  \/ threads # NoThreads /\ NextConc

SpecAny == InitAny /\ [][NextAny]_vars

\* every word of g is contained in the same word of g2, and the count and
\* the set-bit count (the numerator of EstimatedFillRatio) of g are at most
\* those of g2
PartGrows(g, g2) ==
  /\ DOMAIN g.blocks = DOMAIN g2.blocks
  /\ \A w \in DOMAIN g.blocks : g.blocks[w] \subseteq g2.blocks[w]
  /\ g.count <= g2.count
  /\ SetBitsLoop(g, 0) <= SetBitsLoop(g2, 0)

Grows(v, f, f2) ==
  /\ IF v = "Sharded"
     THEN /\ f.numShards = f2.numShards
          /\ \A i \in 1..f.numShards : PartGrows(f.shards[i], f2.shards[i])
     ELSE PartGrows(f, f2)
  /\ Count(v, f) <= Count(v, f2)

\* C11: in every step that is not a Clear, of one caller or of any of the
\* concurrent callers, every set bit stays set and no count decreases, so
\* Count() and the set-bit count of EstimatedFillRatio() never decrease.
C11_Monotone ==
  [][last'.op # "Clear" => Grows(variant, filter, filter')]_vars

\* C11 witness: concurrent Adds on a sharded filter, one has returned and
\* another has set some of its bits
C11_Witness ==
  /\ variant = "Sharded"
  /\ threads # NoThreads
  /\ Count(variant, filter) >= 1
  /\ \E t \in Threads : threads[t].pc = "add" /\ threads[t].i >= 1
  /\ \E i \in 1..filter.numShards : SetBitsLoop(filter.shards[i], 0) >= filter.shards[i].k + 1

(***************************************************************************)
(* Serialization: one caller uses a Filter, encodes it with MarshalBinary  *)
(* and decodes the buffer with UnmarshalBinary.  wire is the buffer on its *)
(* way: as MarshalBinary returned it, or cut, extended or with header or   *)
(* block bytes overwritten since (edits counts the alterations); keys are  *)
(* the keys the encoded filter held; decoded tells that UnmarshalBinary    *)
(* has been given the buffer.  While it holds a buffer the caller only     *)
(* reads the filter; a successful decode gives the filter the caller goes  *)
(* on with, a failed one leaves it with the filter it had.                 *)
(***************************************************************************)
SerKs == {3, 14}

SerKeys == {KeyA, KeyB, KeyC, KeyD}

\* prev is the output of the preceding MarshalBinary call when the caller
\* still holds it and has not changed the filter since, <<>> otherwise
Marshalled(r, pre, prev) ==
  [op |-> "MarshalBinary", key |-> KeyA, ret |-> r.buf, pre |-> pre, err |-> r.err,
   prev |-> prev]

Unmarshalled(r, pre) ==
  [op |-> "UnmarshalBinary", key |-> KeyA, ret |-> r.filter, pre |-> pre, err |-> r.err]

\* data[:n]
Truncate(data, n) == SubSeq(data, 1, IF n < Len(data) THEN n ELSE Len(data))

\* data with the bytes at off.. overwritten, as far as data reaches
Patch(data, off, bytes) ==
  [i \in 1..Len(data) |->
     IF i > off /\ i <= off + Len(bytes) THEN bytes[i - off] ELSE data[i]]

VersionPatches == {<<0, <<0>>>>, <<0, <<2>>>>, <<0, <<255>>>>}

KPatches ==
  {<<1, <<0, 0, 0, 0>>>>, <<1, <<2, 0, 0, 0>>>>, <<1, <<15, 0, 0, 0>>>>,
   <<1, <<7, 1, 0, 0>>>>, <<1, <<7, 0, 0, 128>>>>}

NumBlocksPatches ==
  {<<5, <<0, 0, 0, 0, 0, 0, 0, 0>>>>, <<5, <<0, 0, 0, 0, 0, 0, 0, 48>>>>,
   <<5, maxNumBlocks>>, <<5, <<1, 0, 0, 0, 0, 0, 4, 0>>>>,
   <<5, <<2, 0, 0, 0, 0, 0, 0, 0>>>>}

OtherPatches == {<<13, <<5, 0, 0, 0, 0, 0, 0, 0>>>>, <<21, <<255>>>>}

\* the alterations of a buffer that came from MarshalBinary
FirstEdits(buf) ==
  {Patch(buf, p[1], p[2]) :
     p \in VersionPatches \cup KPatches \cup NumBlocksPatches \cup OtherPatches}
  \cup {buf \o <<255>>}
  \cup {Truncate(buf, n) : n \in {0, headerSize - 1, headerSize, Len(buf) - 1}}

\* the further alterations: of a buffer whose version was set to 2 or
\* whose k was set to 15 (its fields, and cuts to 20 bytes and by one
\* byte), and the cut to the header of a buffer whose numBlocks was
\* overwritten
SecondEdits(buf) ==
  IF Len(buf) <= headerSize THEN {}
  ELSE (IF buf[1] = 2 \/ Uint(buf, 1, 4) = <<15, 0, 0, 0>>
        THEN {Patch(buf, p[1], p[2]) :
                p \in {<<1, <<15, 0, 0, 0>>>>, <<5, <<0, 0, 0, 0, 0, 0, 0, 0>>>>,
                       <<5, <<0, 0, 0, 0, 0, 0, 0, 48>>>>}}
             \cup {Truncate(buf, headerSize - 1), Truncate(buf, Len(buf) - 1)}
        ELSE {})
       \cup
       (IF \E p \in NumBlocksPatches : Uint(buf, 5, 8) = p[2]
        THEN {Truncate(buf, headerSize)}
        ELSE {})

InitSer ==
  /\ variant = "Filter"
  /\ \E nb \in 1..MaxBlocks, kk \in SerKs : filter = NewWithParams(nb, kk)
  /\ added = {}
  /\ last = Call("New", KeyA, FALSE, 0)
  /\ threads = NoThreads
  /\ started = 0
  /\ issued = 0
  /\ overlap = {}
  /\ wire = NoWire

\* the buffer the caller holds, when it is the output of MarshalBinary on
\* the filter as it is now
HeldEncoding == IF wire.edits = "none" /\ ~wire.decoded THEN wire.buf ELSE <<>>

\* variant of the MarshalBinary call that resets the count of the filter
FilterMarshalCall_Resets ==
  /\ variant = "Filter"
  /\ LET r == MarshalBinary(filter)
     IN /\ wire' = [buf |-> r.buf, keys |-> added, edits |-> "none", decoded |-> FALSE]
        /\ last' = Marshalled(r, filter.count, HeldEncoding)
  /\ filter' = [filter EXCEPT !.count = 0]
  /\ UNCHANGED <<variant, added, threads, started, issued, overlap>>

\* data, err := f.MarshalBinary()
FilterMarshalCall ==
  /\ variant = "Filter"
  /\ LET r == MarshalBinary(filter)
     IN /\ wire' = [buf |-> r.buf, keys |-> added, edits |-> "none", decoded |-> FALSE]
        /\ last' = Marshalled(r, filter.count, HeldEncoding)
  /\ UNCHANGED <<variant, filter, added, threads, started, issued, overlap>>

\* the buffer is altered before it is decoded
AlterWire ==
  /\ wire # NoWire
  /\ ~wire.decoded
  /\ \/ /\ wire.edits = "none"
        /\ \E d \in FirstEdits(wire.buf) :
             wire' = [wire EXCEPT !.buf = d, !.edits = "once"]
     \/ /\ wire.edits = "once"
        /\ \E d \in SecondEdits(wire.buf) :
             wire' = [wire EXCEPT !.buf = d, !.edits = "twice"]
  /\ last' = Call("Alter", KeyA, FALSE, filter.count)
  /\ UNCHANGED <<variant, filter, added, threads, started, issued, overlap>>

\* f, err := UnmarshalBinary(data); the caller goes on with f when err is nil
UnmarshalCall ==
  /\ variant = "Filter"
  /\ ~wire.decoded
  /\ LET r == UnmarshalBinary(wire.buf)
     IN /\ last' = Unmarshalled(r, filter.count)
        /\ filter' = IF r.err = NoError THEN r.filter ELSE filter
        /\ added' = IF r.err # NoError THEN added
                    ELSE IF wire.edits = "none" THEN wire.keys
                    ELSE {}
  /\ wire' = [wire EXCEPT !.decoded = TRUE]
  /\ UNCHANGED <<variant, threads, started, issued, overlap>>

\* the caller holds no buffer and goes on with a filter that UnmarshalBinary
\* returned
InUse == [buf |-> <<>>, keys |-> {}, edits |-> "none", decoded |-> TRUE]

\* the caller lets go of a buffer that has been decoded
DropWire ==
  /\ wire.decoded
  /\ wire # InUse
  /\ wire' = IF UnmarshalError(wire.buf) = NoError THEN InUse ELSE NoWire
  /\ UNCHANGED <<variant, filter, added, last, threads, started, issued, overlap>>

\* the caller changes the filter only when it holds no buffer
NextSer ==
  \/ wire \in {NoWire, InUse} /\ \E h \in SerKeys : FilterAddCall(h)
  \/ wire.edits = "none" /\ \E h \in SerKeys : FilterTestCall(h)
  \/ wire \in {NoWire, InUse} /\ \E h \in SerKeys : FilterTestAndAddCall(h)
  \/ wire \in {NoWire, InUse} /\ FilterClearCall
  \/ FilterMarshalCall
  \/ AlterWire
  \/ UnmarshalCall
  \/ DropWire

SpecSer == InitSer /\ [][NextSer]_vars

(***************************************************************************)
(* Properties of serialization (specification SpecSer).                    *)
(***************************************************************************)
\* the step decodes the buffer
Decodes == last'.op = "UnmarshalBinary" /\ ~wire.decoded /\ wire'.decoded

\* the caller holds a buffer that has been decoded and last holds the result
Decoded == last.op = "UnmarshalBinary" /\ wire.decoded /\ wire # InUse

\* C12: decoding the unaltered encoding of a filter succeeds and gives a
\* filter with the same k, blockCount, count and bit array, on which Test
\* answers as on the encoded filter for every key, true or false; also
\* when the filter itself came from a decode.
C12_RoundTrip ==
  [][(Decodes /\ wire # NoWire /\ wire.edits = "none") =>
       /\ last'.err = NoError
       /\ filter'.k = filter.k
       /\ filter'.numBlocks = filter.numBlocks
       /\ filter'.count = filter.count
       /\ filter'.blocks = filter.blocks
       /\ \A h \in Keys : FilterTest(filter', h) = FilterTest(filter, h)]_vars

\* C12 witness: a two-block filter with two keys, on which a key never
\* added tests true and another tests false, has been decoded from its
\* encoding
C12_Witness ==
  /\ Decoded
  /\ last.err = NoError
  /\ wire.edits = "none"
  /\ added = {KeyA, KeyB}
  /\ filter.numBlocks = 2
  /\ filter.count = 2
  /\ FilterTest(filter, KeyC)
  /\ ~FilterTest(filter, KeyD)

\* bit t of the byte v
ByteBit(v, t) == (v \div Pow2(t)) % 2 = 1

\* the bytes buf[off..off+n-1] are the little-endian bytes of v
IsLittleEndian(buf, off, n, v) ==
  /\ \A i \in 0..(n - 1) : buf[off + i + 1] \in 0..255
  /\ \A i \in 4..(n - 1) : buf[off + i + 1] = 0
  /\ v = buf[off + 1] + 256 * buf[off + 2] + 65536 * buf[off + 3]
           + 16777216 * buf[off + 4]

\* C13: MarshalBinary succeeds and returns 21 + 64*blockCount bytes: the
\* version 1, k as little-endian u32, blockCount and count as little-endian
\* u64, then the words of the bit array in index order, 8 little-endian
\* bytes each.
C13_WireFormat ==
  last.op = "MarshalBinary" =>
    /\ last.err = NoError
    /\ wire.buf = last.ret
    /\ Len(wire.buf) = 21 + 64 * filter.numBlocks
    /\ wire.buf[1] = 1
    /\ IsLittleEndian(wire.buf, 1, 4, filter.k)
    /\ IsLittleEndian(wire.buf, 5, 8, filter.numBlocks)
    /\ IsLittleEndian(wire.buf, 13, 8, filter.count)
    /\ \A w \in 0..(filter.numBlocks * 8 - 1) : \A b \in 0..63 :
         (b \in filter.blocks[w]) <=> ByteBit(wire.buf[21 + 8 * w + (b \div 8) + 1], b % 8)

\* C13 witness: the encoding of a two-block filter with k = 14 and keys in
\* both blocks
C13_Witness ==
  /\ last.op = "MarshalBinary"
  /\ filter.numBlocks = 2
  /\ filter.k = 14
  /\ filter.count = 3
  /\ {KeyA, KeyD} \subseteq added
  /\ Len(wire.buf) = 149

\* what the header of a buffer d of at least 21 bytes says
VersionOk(d) == d[1] = 1

KOk(d) == d[2] \in 3..14 /\ d[3] = 0 /\ d[4] = 0 /\ d[5] = 0

NumBlocksZero(d) == \A i \in 6..13 : d[i] = 0

\* blockCount < 2^50: nothing from bit 50 on
NumBlocksBelowCeiling(d) == d[13] = 0 /\ d[12] < 4

NumBlocksOk(d) == ~NumBlocksZero(d) /\ NumBlocksBelowCeiling(d)

\* the length of d is 21 + 64*blockCount
ExactLength(d) ==
  \E nb \in 1..(Len(d) \div 64) :
    /\ Len(d) = 21 + 64 * nb
    /\ d[6] = nb
    /\ \A i \in 7..13 : d[i] = 0

\* C14: UnmarshalBinary fails with the invalid-data error on every input
\* shorter than 21 bytes; on a buffer that is valid but for its version
\* byte it fails with the unsupported-version error, and on one that is
\* valid but for its k field with the invalid-k error; the three errors
\* differ.
C14_DecodeErrorKinds ==
  /\ Decoded =>
       LET d == wire.buf
       IN /\ Len(d) < 21 => last.err = ErrInvalidData
          /\ (Len(d) >= 21 /\ ~VersionOk(d) /\ KOk(d) /\ ExactLength(d))
               => last.err = ErrUnsupportedVersion
          /\ (Len(d) >= 21 /\ VersionOk(d) /\ ~KOk(d) /\ ExactLength(d))
               => last.err = ErrInvalidK
  /\ Cardinality({ErrInvalidData, ErrUnsupportedVersion, ErrInvalidK, NoError}) = 4

\* C14 witness: a buffer that is valid but for k = 15 was refused with the
\* invalid-k error
C14_Witness ==
  /\ Decoded
  /\ Len(wire.buf) >= 21
  /\ VersionOk(wire.buf)
  /\ wire.buf[2] = 15
  /\ ~KOk(wire.buf)
  /\ ExactLength(wire.buf)
  /\ last.err = ErrInvalidK

\* C15 as stated: every input whose blockCount field is zero or not below
\* 2^50 is refused with the invalid-data error, whatever its length, and
\* only 1 <= blockCount < 2^50 is accepted.
C15_AsStated ==
  Decoded =>
    /\ (Len(wire.buf) >= 21 /\ ~NumBlocksOk(wire.buf)) => last.err = ErrInvalidData
    /\ last.err = NoError => NumBlocksOk(wire.buf)

\* C15: every input whose blockCount field is zero or not below 2^50 is
\* refused, whatever its length: with the invalid-data error when its
\* version and k are valid, with the error of the version or of k
\* otherwise; only 1 <= blockCount < 2^50 is accepted.
C15_NumBlocksValidated ==
  Decoded =>
    /\ (Len(wire.buf) >= 21 /\ ~NumBlocksOk(wire.buf)) =>
         /\ last.err # NoError
         /\ (VersionOk(wire.buf) /\ KOk(wire.buf)) => last.err = ErrInvalidData
         /\ ~VersionOk(wire.buf) => last.err = ErrUnsupportedVersion
         /\ (VersionOk(wire.buf) /\ ~KOk(wire.buf)) => last.err = ErrInvalidK
    /\ last.err = NoError => NumBlocksOk(wire.buf)

\* C15 witness: a header of 21 bytes with valid version and k and
\* blockCount zero was refused with the invalid-data error
C15_Witness ==
  /\ Decoded
  /\ Len(wire.buf) = 21
  /\ VersionOk(wire.buf)
  /\ KOk(wire.buf)
  /\ NumBlocksZero(wire.buf)
  /\ last.err = ErrInvalidData

\* C16: with a valid version, k and blockCount in the header, decoding
\* succeeds exactly when the length is 21 + 64*blockCount; any other
\* length, one byte short or one byte long included, gives the
\* invalid-data error.
C16_ExactLength ==
  (Decoded /\ Len(wire.buf) >= 21 /\ VersionOk(wire.buf) /\ KOk(wire.buf)
     /\ NumBlocksOk(wire.buf)) =>
    IF ExactLength(wire.buf) THEN last.err = NoError
    ELSE last.err = ErrInvalidData

\* C16 witness: an encoding with one byte appended was refused with the
\* invalid-data error
C16_Witness ==
  /\ Decoded
  /\ Len(wire.buf) = 21 + 64 * filter.numBlocks + 1
  /\ VersionOk(wire.buf) /\ KOk(wire.buf) /\ NumBlocksOk(wire.buf)
  /\ wire.buf[6] = filter.numBlocks
  /\ last.err = ErrInvalidData

\* C16 witness: an encoding cut by one byte was refused likewise
C16_WitnessTruncated ==
  /\ Decoded
  /\ Len(wire.buf) = 21 + 64 * filter.numBlocks - 1
  /\ VersionOk(wire.buf) /\ KOk(wire.buf) /\ NumBlocksOk(wire.buf)
  /\ wire.buf[6] = filter.numBlocks
  /\ last.err = ErrInvalidData

\* a filter as UnmarshalBinary returns it when it succeeds
WholeFilter(f) ==
  /\ f # NilFilter
  /\ DOMAIN f = {"blocks", "numBlocks", "k", "primes", "offsets", "count"}
  /\ f.numBlocks >= 1
  /\ DOMAIN f.blocks = 0..(f.numBlocks * BlockWords - 1)
  /\ f.k \in 3..14
  /\ Len(f.primes) = f.k
  /\ Len(f.offsets) = f.k

\* C17: UnmarshalBinary returns either a filter and a nil error, or no
\* filter and an error; never a filter together with an error.
C17_AllOrNothing ==
  Decoded =>
    \/ last.err = NoError /\ WholeFilter(last.ret) /\ filter = last.ret
    \/ /\ last.err \in {ErrInvalidData, ErrUnsupportedVersion, ErrInvalidK}
       /\ last.ret = NilFilter

\* C17 witness: a buffer whose header is valid and whose block data is cut
\* short was refused and no filter was returned
C17_Witness ==
  /\ Decoded
  /\ Len(wire.buf) = 21
  /\ VersionOk(wire.buf) /\ KOk(wire.buf) /\ NumBlocksOk(wire.buf)
  /\ last.err = ErrInvalidData
  /\ last.ret = NilFilter

\* the step is a call of MarshalBinary
Marshals == last'.op = "MarshalBinary" /\ (last' # last \/ wire' # wire \/ filter' # filter)

C19_DecodedUsable ==
  [][/\ (Decodes /\ last'.err = NoError) =>
          /\ filter'.primes = GetPrimePartition(filter'.k)
          /\ Len(filter'.primes) = filter'.k
          /\ filter'.offsets = ComputeOffsets(filter'.primes)
          /\ Count("Filter", filter') = Value(Uint(wire.buf, 13, 8))
          /\ wire.edits = "none" =>
               /\ added' = wire.keys
               /\ \A h \in wire.keys : FilterTest(filter', h)
     /\ (wire = InUse /\ last'.op = "Add" /\ filter' # filter) =>
          /\ Count("Filter", filter') = Count("Filter", filter) + 1
          /\ last'.key \in added'
          /\ added \subseteq added'
          /\ \A h \in added' : FilterTest(filter', h)]_vars

\* C19 witness: a decoded filter that held KeyA and KeyB with count 2 has
\* had KeyD added, and tests true for all three with count 3
C19_Witness ==
  /\ wire = InUse
  /\ last.op = "Add"
  /\ last.key = KeyD
  /\ last.pre = 2
  /\ added = {KeyA, KeyB, KeyD}
  /\ filter.count = 3
  /\ filter.k = 14
  /\ \A h \in added : FilterTest(filter, h)

(***************************************************************************)
(* Construction (specification Spec).                                      *)
(***************************************************************************)
\* C20: NewWithParams and NewAtomicWithParams turn numBlocks 0 into 1 and a
\* k outside 3..14 into 7 and keep every other argument, so that the filter
\* they return has numBlocks >= 1, 3 <= k <= 14, k partition widths,
\* numBlocks*8 zero words and count 0.
C20_ConstructionCoerces ==
  (last.op = "New" /\ variant \in {"Filter", "Atomic"}) =>
    /\ filter.numBlocks = (IF last.numBlocks = 0 THEN 1 ELSE last.numBlocks)
    /\ filter.k = (IF last.k \in 3..14 THEN last.k ELSE 7)
    /\ filter.numBlocks >= 1
    /\ filter.k \in 3..14
    /\ Len(filter.primes) = filter.k
    /\ DOMAIN filter.blocks = 0..(filter.numBlocks * 8 - 1)
    /\ \A w \in DOMAIN filter.blocks : filter.blocks[w] = {}
    /\ filter.count = 0

\* C20 witness: NewAtomicWithParams(0, 15) returned a filter of one block
\* with k = 7
C20_Witness ==
  /\ last.op = "New"
  /\ variant = "Atomic"
  /\ last.numBlocks = 0
  /\ last.k = 15
  /\ filter.numBlocks = 1
  /\ filter.k = 7
  /\ Len(filter.primes) = 7

\* C20 witness: NewWithParams(0, 2) likewise
C20_WitnessFilter ==
  /\ last.op = "New"
  /\ variant = "Filter"
  /\ last.numBlocks = 0
  /\ last.k = 2
  /\ filter.numBlocks = 1
  /\ filter.k = 7
  /\ DOMAIN filter.blocks = 0..7

(***************************************************************************)
(* The split of one hash by the sharded filter (specification SpecSplit):  *)
(* a filter is constructed for a requested shard count, and the bits of a  *)
(* hash are changed one at a time.  Of the filter the state keeps what the *)
(* split reads: numShards, mask and the numBlocks of a shard.              *)
(***************************************************************************)
RECURSIVE TwoTo(_)
TwoTo(n) == IF n = 0 THEN 1 ELSE 2 * TwoTo(n - 1)

\* shard counts asked of NewShardedAtomic
ShardInputs == {0, 1, 2, 3, 4, 5, 8, 65536, 65537}

\* the bits of the hash that are changed
SplitBits == {0, 30, 32, 47, 48, 55, 62}

\* h with bit b changed
FlipHashBit(h, b) ==
  IF b < 32
  THEN [h EXCEPT !.lo = IF (h.lo \div TwoTo(b)) % 2 = 1 THEN @ - TwoTo(b) ELSE @ + TwoTo(b)]
  ELSE [h EXCEPT !.hi = IF (h.hi \div TwoTo(b - 32)) % 2 = 1 THEN @ - TwoTo(b - 32)
                       ELSE @ + TwoTo(b - 32)]

\* what Add and Test of the sharded filter compute from the hash h
SplitFields(sf, h) ==
  LET s == hashSplitSharded(h, sf.numBlocks)
  IN [shard |-> shardIndex(sf, h), blockIdx |-> s.blockIdx, intraHash |-> s.intraHash]

\* the hash h was reached by changing bit b; was and now are the fields
\* before and after the change
Split(h, b, was, now) ==
  [op |-> "Split", key |-> h, bit |-> b, was |-> was, now |-> now]

InitSplit ==
  /\ variant = "Sharded"
  /\ \E nb \in 1..(MaxBlocks + 1), ns \in ShardInputs :
       LET c == ShardCount(ns)
       IN filter = [numShards |-> c.numShards, mask |-> c.mask, numBlocks |-> nb]
  /\ added = {}
  /\ last = Split(KeyA, 0, SplitFields(filter, KeyA), SplitFields(filter, KeyA))
  /\ threads = NoThreads
  /\ started = 0
  /\ issued = 0
  /\ overlap = {}
  /\ wire = NoWire

FlipBit(b) ==
  /\ variant = "Sharded"
  /\ LET h == FlipHashBit(last.key, b)
     IN last' = Split(h, b, SplitFields(filter, last.key), SplitFields(filter, h))
  /\ UNCHANGED <<variant, filter, added, threads, started, issued, overlap, wire>>

NextSplit == \E b \in SplitBits : FlipBit(b)

SpecSplit == InitSplit /\ [][NextSplit]_vars

\* C21: for every shard count, the shard index changes only with bits
\* 32-47 of the hash, the block index only with bits 48-63 and the
\* intra-block hash only with bits 0-31.
C21_AsStated ==
  /\ last.bit \notin 32..47 => last.now.shard = last.was.shard
  /\ last.bit \notin 48..63 => last.now.blockIdx = last.was.blockIdx
  /\ last.bit \notin 0..31 => last.now.intraHash = last.was.intraHash

\* C21 for the shard counts up to 65536, where the mask has no bit above
\* bit 15
C21_UpTo65536 ==
  filter.numShards <= 65536 => C21_AsStated

(***************************************************************************)
(* Routing in the sharded filter (specification Spec).                     *)
(***************************************************************************)
\* the bits <<word, bit>> of shard number n (from 1) that belong to hash h:
\* block from bits 48-63, one bit per partition from bits 0-31
ShardProbes(sf, n, h) ==
  LET g == sf.shards[n]
      block == (h.hi \div 65536) % g.numBlocks
  IN {<<block * 8 + ((g.offsets[i] + (h.lo % g.primes[i])) \div 64),
        (g.offsets[i] + (h.lo % g.primes[i])) % 64>> : i \in 1..g.k}

\* every bit of P is set in the words
AllSet(blocks, P) == \A q \in P : q[2] \in blocks[q[1]]

RoundInput(n) ==
  /\ n \subseteq 0..63
  /\ Cardinality(n) <= 2 \/ \E a \in 0..63 : n = 0..a

\* NewShardedAtomic was called with the shard count n
Rounded(n) ==
  LET c == ShardCount64(n)
  IN [op |-> "NewShardedAtomic", n |-> n, numShards |-> c.numShards,
      mask |-> c.mask, panics |-> c.panics]

InitRound ==
  /\ variant = "Sharded"
  /\ filter = NilFilter
  /\ added = {}
  /\ last = Rounded({})
  /\ threads = NoThreads
  /\ started = 0
  /\ issued = 0
  /\ overlap = {}
  /\ wire = NoWire

\* the next call asks for a shard count that differs in one bit
RoundCall(n) ==
  /\ RoundInput(n)
  /\ \E b \in 0..63 : n = (last.n \ {b}) \cup ({b} \ last.n)
  /\ last' = Rounded(n)
  /\ UNCHANGED <<variant, filter, added, threads, started, issued, overlap, wire>>

NextRound == \E b \in 0..63 : RoundCall((last.n \ {b}) \cup ({b} \ last.n))

SpecRound == InitRound /\ [][NextRound]_vars

\* r is the smallest power of two that is at least n
SmallestPowerOf2(n, r) ==
  \E p \in 0..63 :
    /\ r = {p}
    /\ n = {p} \/ n \subseteq 0..(p - 1)
    /\ p = 0 \/ n = {p} \/ (p - 1 \in n /\ n # {p - 1})

\* C23: for every uint64 n, numShards is the smallest power of two that is
\* at least n, it is at least 1, mask is numShards - 1 and the
\* construction does not fail.
C23_AsStated ==
  /\ SmallestPowerOf2(last.n, last.numShards)
  /\ last.numShards # {}
  /\ Inc64(last.mask) = last.numShards
  /\ ~last.panics

\* C23 for the shard counts up to 2^63, the largest power of two of a
\* uint64
C23_UpTo2Pow63 ==
  (last.n = {63} \/ 63 \notin last.n) => C23_AsStated

(***************************************************************************)
(* OptimalParams (specification SpecParams).  fpRate is a fraction         *)
(* <<numerator, denominator>>; float64 values are kept in thousandths, and *)
(* math.Log is evaluated at the rates that are drawn.                      *)
(***************************************************************************)
\* expectedItems arguments
ItemInputs == {0, 1, 2, 5, 10, 50, 100, 500, 1000, 5000, 10000}

\* fpRate arguments: -0.1, 0, 0.0000001, 0.0001, 0.001, 0.01, 0.1, 0.5,
\* 0.99, 1 and 2
RateInputs ==
  {<<-1, 10>>, <<0, 1>>, <<1, 10000000>>, <<1, 10000>>, <<1, 1000>>, <<1, 100>>,
   <<1, 10>>, <<1, 2>>, <<99, 100>>, <<1, 1>>, <<2, 1>>}

\* ln2, in thousandths
ln2 == 693

\* -math.Log(fpRate) / ln2Squared for 0 < fpRate < 1, in thousandths
BitsPerItem(fpRate) ==
  CASE fpRate = <<1, 10000000>> -> 33548
    [] fpRate = <<1, 10000>>    -> 19170
    [] fpRate = <<1, 1000>>     -> 14378
    [] fpRate = <<1, 100>>      -> 9585
    [] fpRate = <<1, 10>>       -> 4793
    [] fpRate = <<1, 2>>        -> 1443
    [] fpRate = <<99, 100>>     -> 21

\* math.Ceil(a / b) for a > 0, b > 0
CeilDiv(a, b) == (a + b - 1) \div b

\* math.Round(a / b) for a >= 0, b > 0
RoundDiv(a, b) == (2 * a + b) \div (2 * b)

\* max(k, 3), min(k, 14)
Clamp(kk) == IF kk < 3 THEN 3 ELSE IF kk > 14 THEN 14 ELSE kk

\* variant of OptimalParams that keeps an fpRate of 1 or more
OptimalParams_NoUpperRate(expectedItemsIn, fpRateIn) ==
  LET expectedItems == IF expectedItemsIn = 0 THEN 1 ELSE expectedItemsIn
      fpRate == IF fpRateIn[1] <= 0 THEN <<1, 10000>> ELSE fpRateIn
      bitsPerItem == IF fpRate[1] >= fpRate[2] THEN 0 ELSE BitsPerItem(fpRate)
      totalBits == expectedItems * bitsPerItem
      numBlocks == CeilDiv(totalBits, BlockBits * 1000)
      kk == RoundDiv(numBlocks * BlockBits * ln2, expectedItems * 1000)
  IN [numBlocks |-> numBlocks, k |-> Clamp(kk), bitsPerItem |-> bitsPerItem]

OptimalParams(expectedItemsIn, fpRateIn) ==
  LET expectedItems == IF expectedItemsIn = 0 THEN 1 ELSE expectedItemsIn
      fpRate0 == IF fpRateIn[1] <= 0 THEN <<1, 10000>> ELSE fpRateIn
      fpRate == IF fpRate0[1] >= fpRate0[2] THEN <<99, 100>> ELSE fpRate0
      bitsPerItem == BitsPerItem(fpRate)
      totalBits == expectedItems * bitsPerItem
      numBlocks == CeilDiv(totalBits, BlockBits * 1000)
      kk == RoundDiv(numBlocks * BlockBits * ln2, expectedItems * 1000)
  IN [numBlocks |-> numBlocks, k |-> Clamp(kk), bitsPerItem |-> bitsPerItem]

\* OptimalParams was called with these arguments and returned r
Computed(expectedItems, fpRate, r) ==
  [op |-> "OptimalParams", expectedItems |-> expectedItems, fpRate |-> fpRate,
   numBlocks |-> r.numBlocks, k |-> r.k, bitsPerItem |-> r.bitsPerItem]

InitParams ==
  /\ variant = "Filter"
  /\ filter = NilFilter
  /\ added = {}
  /\ last = Computed(1000, <<1, 100>>, OptimalParams(1000, <<1, 100>>))
  /\ threads = NoThreads
  /\ started = 0
  /\ issued = 0
  /\ overlap = {}
  /\ wire = NoWire

OptimalParamsCall(expectedItems, fpRate) ==
  /\ last' = Computed(expectedItems, fpRate, OptimalParams(expectedItems, fpRate))
  /\ UNCHANGED <<variant, filter, added, threads, started, issued, overlap, wire>>

NextParams == \E n \in ItemInputs, p \in RateInputs : OptimalParamsCall(n, p)

SpecParams == InitParams /\ [][NextParams]_vars

LiveThreads == {1, 2}

LiveKeys == {KeyA, KeyB}

InitLive == InitClear /\ issued = 0

\* the steps of thread t inside a call
ThreadStep(t) ==
  \/ LoadStep(t)
  \/ OrStep(t)
  \/ CountStep(t)
  \/ ClearStoreStep(t)
  \/ ClearCountStep(t)

NextLive ==
  \/ \E t \in LiveThreads, h \in LiveKeys : BeginAdd(t, h)
  \/ \E t \in LiveThreads, h \in LiveKeys : BeginTest(t, h)
  \/ \E t \in LiveThreads, h \in LiveKeys : BeginTestAndAdd(t, h)
  \/ \E t \in LiveThreads : BeginClear(t)
  \/ \E t \in LiveThreads : ThreadStep(t)

SpecLive == InitLive /\ [][NextLive]_vars /\ \A t \in LiveThreads : WF_vars(ThreadStep(t))

\* the word accesses and counter updates that the call of thread record th
\* on filter f can still make, at most
StepsLeft(th, f) ==
  CASE th.pc = "idle"       -> 0
    [] th.pc = "test"       -> (f.k - th.i) + (IF th.op = "TestAndAdd" THEN f.k + 1 ELSE 0)
    [] th.pc = "add"        -> (f.k - th.i) + 1
    [] th.pc = "count"      -> 1
    [] th.pc = "clear"      -> (f.numBlocks * BlockWords - th.i) + 1
    [] th.pc = "clearcount" -> 1

\* C26: a call never waits and is bounded.  Whatever the other threads do,
\* a thread inside Add, Test, TestAndAdd or Clear can take its next step;
\* each step brings it nearer the end of the call, and the steps of a call
\* number at most k (Test), k + 1 (Add), 2k + 1 (TestAndAdd) or one per
\* word and one more (Clear); a call that has started returns.
C26_NonBlockingBounded ==
  /\ [](\A t \in Threads : InFlight(t) => ENABLED ThreadStep(t))
  /\ [][\A t \in Threads :
          /\ threads'[t] # threads[t] =>
               \/ ~InFlight(t) /\
                    StepsLeft(threads'[t], filter) + 1 <=
                      (CASE threads'[t].op = "Test" -> filter.k
                         [] threads'[t].op = "Add" -> filter.k + 1
                         [] threads'[t].op = "TestAndAdd" -> 2 * filter.k + 1
                         [] threads'[t].op = "Clear" -> filter.numBlocks * BlockWords + 1
                         [] OTHER -> 1)
               \/ InFlight(t) /\ StepsLeft(threads'[t], filter) < StepsLeft(threads[t], filter)]_vars
  /\ \A t \in Threads : InFlight(t) ~> ~InFlight(t)

\* C26 witness: a TestAndAdd is in its Or loop while another thread is in
\* the middle of Clear
C26_Witness ==
  \E t, u \in Threads :
    /\ threads[t].op = "TestAndAdd" /\ threads[t].pc = "add" /\ threads[t].i = 1
    /\ threads[u].op = "Clear" /\ threads[u].pc = "clear" /\ threads[u].i = 3


(***************************************************************************)
(* Concurrent use of the unsynchronized Filter: two callers run Add        *)
(* without a lock.  blocks[w] |= mask is a plain read of the word and a    *)
(* plain write of the word, f.count++ a plain read and a plain write of     *)
(* the count, and the steps of the two callers interleave at that          *)
(* granularity; reg and cnt are the values a caller has read.              *)
(***************************************************************************)
RaceThreads == {1, 2}

RaceIdle ==
  [pc |-> "idle", op |-> "none", key |-> KeyA, i |-> 0,
   present |-> FALSE, guar |-> FALSE, reg |-> {}, cnt |-> 0]

\* the word that iteration i of Filter.addWithHash reads
WordRead(f, blockBase, intraHash, i) ==
  f.blocks[blockBase + (BitPos(f, intraHash, i) \div 64)]

\* variant of WordWrite that writes the mask alone
WordWrite_Assign(f, blockBase, intraHash, i, word) ==
  LET bitPos == BitPos(f, intraHash, i)
  IN [f EXCEPT !.blocks[blockBase + (bitPos \div 64)] = {bitPos % 64}]

\* the write of iteration i: the word read, with the bit set
WordWrite(f, blockBase, intraHash, i, word) ==
  LET bitPos == BitPos(f, intraHash, i)
  IN [f EXCEPT !.blocks[blockBase + (bitPos \div 64)] = word \cup {bitPos % 64}]

InitRace ==
  /\ variant = "Filter"
  /\ \E nb \in 1..MaxBlocks :
       /\ filter = NewWithParams(nb, ConcK)
       /\ last = New(nb, ConcK)
  /\ added = {}
  /\ threads = [t \in Threads |-> RaceIdle]
  /\ started = 0
  /\ issued = 0
  /\ overlap = {}
  /\ wire = NoWire

\* Add begins: hash, and the read of the word of probe 0
RaceBeginAdd(t, h) ==
  /\ ~InFlight(t)
  /\ started < MaxStarted
  /\ threads' = [threads EXCEPT ![t] =
       [pc |-> "write", op |-> "Add", key |-> h, i |-> 0, present |-> FALSE,
        guar |-> h \in added, reg |-> WordRead(filter, BlockBase(h), h.lo, 0),
        cnt |-> 0]]
  /\ started' = started + 1
  /\ issued' = issued + 1
  /\ overlap' = OverlapAtBegin(t, "Add")
  /\ UNCHANGED <<wire, variant, filter, added, last>>

\* the write of the word of probe i
RaceWriteStep(t) ==
  LET th == threads[t]
  IN /\ th.pc = "write"
     /\ filter' = WordWrite(filter, BlockBase(th.key), th.key.lo, th.i, th.reg)
     /\ threads' = [threads EXCEPT ![t] =
          IF th.i + 1 >= filter.k THEN [th EXCEPT !.pc = "readcount", !.i = 0, !.reg = {}]
          ELSE [th EXCEPT !.pc = "read", !.i = th.i + 1, !.reg = {}]]
     /\ UNCHANGED <<wire, variant, added, last, started, issued, overlap>>

\* the read of the word of probe i
RaceReadStep(t) ==
  LET th == threads[t]
  IN /\ th.pc = "read"
     /\ threads' = [threads EXCEPT ![t] =
          [th EXCEPT !.pc = "write",
                     !.reg = WordRead(filter, BlockBase(th.key), th.key.lo, th.i)]]
     /\ UNCHANGED <<wire, variant, filter, added, last, started, issued, overlap>>

\* f.count++: the read of the count
RaceReadCount(t) ==
  LET th == threads[t]
  IN /\ th.pc = "readcount"
     /\ threads' = [threads EXCEPT ![t] =
          [th EXCEPT !.pc = "writecount", !.cnt = filter.count]]
     /\ UNCHANGED <<wire, variant, filter, added, last, started, issued, overlap>>

\* f.count++: the write of the count, after which Add returns
RaceWriteCount(t) ==
  LET th == threads[t]
  IN /\ th.pc = "writecount"
     /\ filter' = [filter EXCEPT !.count = th.cnt + 1]
     /\ threads' = [threads EXCEPT ![t] = RaceIdle]
     /\ added' = added \cup {th.key}
     /\ UNCHANGED <<wire, variant, last, started, issued, overlap>>

NextRace ==
  \/ \E t \in RaceThreads, h \in ConcKeys : RaceBeginAdd(t, h)
  \/ \E t \in RaceThreads : RaceWriteStep(t)
  \/ \E t \in RaceThreads : RaceReadStep(t)
  \/ \E t \in RaceThreads : RaceReadCount(t)
  \/ \E t \in RaceThreads : RaceWriteCount(t)

SpecRace == InitRace /\ [][NextRace]_vars

\* a key whose Add returned tests false
LostBit == \E h \in added : ~FilterTest(filter, h)

\* Count() is less than the number of Adds
LostCount == filter.count < issued

\* C27: the unsynchronized Filter gives no guarantee under concurrent
\* access: once all Adds have returned, a key whose Add returned can test
\* false and Count() can be less than the number of Adds (the witnesses),
\* and either happens only when two Adds were in flight together; Count()
\* is never more than the number of Adds and is at least 1 after one.
C27_FilterUnsynchronized ==
  Quiescent =>
    /\ (LostBit \/ LostCount) => "adds" \in overlap
    /\ filter.count <= issued
    /\ issued >= 1 => filter.count >= 1

\* C27 witness: two Adds of different keys that overlapped have both
\* returned, one of the keys tests false and Count() = 1
C27_Witness ==
  /\ Quiescent
  /\ issued = 2
  /\ "adds" \in overlap
  /\ LostBit
  /\ LostCount

\* a lost bit alone: both Adds are counted
C27_WitnessBit == Quiescent /\ issued = 2 /\ LostBit /\ ~LostCount

\* a lost count increment alone: both keys test true
C27_WitnessCount == Quiescent /\ issued = 2 /\ ~LostBit /\ LostCount


(***************************************************************************)
(* The probes of one key: the words and bits that the loop of addWithHash  *)
(* and testWithHash accesses, for every variant, every supported k and a   *)
(* range of hash values.                                                   *)
(***************************************************************************)
\* intra-block hashes: small values, values around the widths and around
\* 512, and large values
ProbeHashes == {0, 1, 10, 60, 166, 167, 172, 173, 511, 512, 3808769, 2147483647}

ProbeKeys == [hi : {0, 1, 2, 3, 65536, 131075}, lo : ProbeHashes]

\* bitPos, wordIdx, bitIdx and the index into blocks of every iteration
Accesses(g, blockBase, intraHash) ==
  [i \in 1..g.k |->
     LET bitPos == BitPos(g, intraHash, i - 1)
         wordIdx == bitPos \div 64
         bitIdx == bitPos % 64
     IN [bitPos |-> bitPos, wordIdx |-> wordIdx, bitIdx |-> bitIdx,
         word |-> blockBase + wordIdx]]

\* the accesses of a call on key h
Probed(h) ==
  [op |-> "Probe", key |-> h, ret |-> FALSE, pre |-> 0,
   acc |-> Accesses(ShardOf(h), BlockBase(h), h.lo)]

InitProbe ==
  /\ variant \in Variants
  /\ \E nb \in 1..MaxBlocks, kk \in 3..14 :
       /\ \/ variant = "Filter" /\ filter = NewWithParams(nb, kk)
          \/ variant = "Atomic" /\ filter = NewAtomicWithParams(nb, kk)
          \/ /\ variant = "Sharded"
             /\ \E ns \in 1..MaxShardsIn : filter = NewShardedAtomic(nb, kk, ns)
       /\ last = New(nb, kk)
  /\ added = {}
  /\ threads = NoThreads
  /\ started = 0
  /\ issued = 0
  /\ overlap = {}
  /\ wire = NoWire

ProbeCall(h) ==
  /\ last' = Probed(h)
  /\ UNCHANGED <<variant, filter, added, threads, started, issued, overlap, wire>>

NextProbe == \E h \in ProbeKeys : ProbeCall(h)

SpecProbe == InitProbe /\ [][NextProbe]_vars

\* C28: probe positions are always in range: every probe i of a key lies
\* in its own partition [offsets[i], offsets[i] + widths[i]) and below 512,
\* the k probes are k distinct bits, the word index is below 8, all probes
\* fall in the one block the hash selects, and the index into blocks is
\* below blockCount * 8.
C28_ProbesInRange ==
  last.op = "Probe" =>
    LET g == ShardOf(last.key)
        acc == last.acc
    IN /\ Len(acc) = g.k
       /\ \A i \in 1..g.k :
            /\ acc[i].bitPos >= g.offsets[i]
            /\ acc[i].bitPos < g.offsets[i] + g.primes[i]
            /\ acc[i].bitPos < BlockBits
            /\ acc[i].wordIdx < BlockWords
            /\ acc[i].bitIdx < 64
            /\ acc[i].word >= BlockBase(last.key)
            /\ acc[i].word < BlockBase(last.key) + BlockWords
            /\ acc[i].word < g.numBlocks * BlockWords
            /\ acc[i].word \in DOMAIN g.blocks
       /\ \A i, j \in 1..g.k : i # j => acc[i].bitPos # acc[j].bitPos

\* C28 witness: the probes of a key with a large intra-block hash in the
\* last block of a filter with k = 14, the last of them in word 7
C28_Witness ==
  /\ last.op = "Probe"
  /\ last.key.lo = 2147483647
  /\ ShardOf(last.key).k = 14
  /\ BlockBase(last.key) = (MaxBlocks - 1) * BlockWords
  /\ last.acc[14].wordIdx = 7


(***************************************************************************)
(* What Test returns (specification Spec).  A bit of the bit array is      *)
(* numbered word * 64 + bit.                                               *)
(***************************************************************************)
\* bit b of the array of f is set
BitIsSet(f, b) == (b % 64) \in f.blocks[b \div 64]

\* the k probe bits of h: in block (h >> 32) mod numBlocks, one per partition
ProbeBits(f, h) ==
  {(h.hi % f.numBlocks) * BlockBits + f.offsets[i] + (h.lo % f.primes[i]) : i \in 1..f.k}

\* C29: Test of Filter and of AtomicFilter returns true if and only if
\* every one of the k probe bits of the key is set in the block the hash
\* selects: false when one of them is 0, and false for every key when the
\* bit array is all zero.
C29_TestIffAllProbesSet ==
  variant \in {"Filter", "Atomic"} =>
    /\ \A h \in Keys : Test(variant, filter, h) = (\A b \in ProbeBits(filter, h) : BitIsSet(filter, b))
    /\ last.op = "Test" => last.ret = (\A b \in ProbeBits(filter, last.key) : BitIsSet(filter, b))
    /\ AllZero(variant, filter) => \A h \in Keys : ~Test(variant, filter, h)

\* C29 witness: Test of KeyC returned false on a filter that holds some of
\* its probe bits, in words that hold all the other bits it looked at
C29_Witness ==
  /\ variant = "Filter"
  /\ last.op = "Test"
  /\ last.key = KeyC
  /\ ~last.ret
  /\ \E b \in ProbeBits(filter, KeyC) : BitIsSet(filter, b)
  /\ \A b \in ProbeBits(filter, KeyC) : filter.blocks[b \div 64] # {}

\* the same of AtomicFilter, and a Test that returned true
C29_WitnessAtomic ==
  /\ variant = "Atomic"
  /\ last.op = "Test"
  /\ last.key = KeyC
  /\ last.ret
  /\ KeyC \notin added


(***************************************************************************)
(* Frame of Filter.Add (specification Spec).                               *)
(***************************************************************************)
\* C30: one Add of the Filter sets exactly the k probe bits of the key, k
\* distinct bits of the one block (h >> 32) mod blockCount, and adds 1 to
\* count; every other bit of every block keeps its value, no bit is
\* cleared, and k, blockCount, widths and offsets are unchanged.
C30_AddFrame ==
  [][(variant = "Filter" /\ last'.op = "Add" /\ filter' # filter) =>
       LET h == last'.key
           P == ProbeBits(filter, h)
       IN /\ Cardinality(P) = filter.k
          /\ \A b \in P : b \div BlockBits = h.hi % filter.numBlocks
          /\ DOMAIN filter'.blocks = DOMAIN filter.blocks
          /\ \A w \in DOMAIN filter.blocks :
               filter'.blocks[w] =
                 filter.blocks[w] \cup {b % 64 : b \in {q \in P : q \div 64 = w}}
          /\ filter'.count = filter.count + 1
          /\ filter'.k = filter.k
          /\ filter'.numBlocks = filter.numBlocks
          /\ filter'.primes = filter.primes
          /\ filter'.offsets = filter.offsets]_vars

\* C30 witness: KeyD was added to block 1 of a filter with two blocks whose
\* block 0 holds KeyA; block 0 kept its bits and Count() is 2
C30_Witness ==
  /\ variant = "Filter"
  /\ last.op = "Add"
  /\ last.key = KeyD
  /\ filter.numBlocks = 2
  /\ filter.count = 2
  /\ added = {KeyA, KeyD}
  /\ \A b \in ProbeBits(filter, KeyA) : BitIsSet(filter, b)
  /\ \A b \in ProbeBits(filter, KeyD) : b \div BlockBits = 1 /\ BitIsSet(filter, b)


(***************************************************************************)
(* A Filter and an AtomicFilter side by side (specification SpecPair):     *)
(* both are built with the same arguments and one caller makes the same    *)
(* calls on both.  filter holds the two, f the Filter and a the            *)
(* AtomicFilter; last holds what the Filter returned in ret and what the   *)
(* AtomicFilter returned in retA; started counts the TestAndAdd calls      *)
(* since construction or the last Clear that found their key present.      *)
(***************************************************************************)
PairCalled(op, h, ret, retA) ==
  [op |-> op, key |-> h, ret |-> ret, retA |-> retA, pre |-> filter.f.count]

InitPair ==
  /\ variant = "Pair"
  /\ \E nb \in 0..MaxBlocks, kk \in KInputs :
       /\ filter = [f |-> NewWithParams(nb, kk), a |-> NewAtomicWithParams(nb, kk)]
       /\ last = [op |-> "New", key |-> KeyA, ret |-> FALSE, retA |-> FALSE, pre |-> 0]
  /\ added = {}
  /\ threads = NoThreads
  /\ started = 0
  /\ issued = 0
  /\ overlap = {}
  /\ wire = NoWire

PairAddCall(h) ==
  /\ filter.a.count < MaxCount
  /\ filter' = [f |-> FilterAdd(filter.f, h), a |-> AtomicAdd(filter.a, h)]
  /\ added' = added \cup {h}
  /\ last' = PairCalled("Add", h, FALSE, FALSE)
  /\ UNCHANGED <<variant, threads, started, issued, overlap, wire>>

PairTestCall(h) ==
  /\ last' = PairCalled("Test", h, FilterTest(filter.f, h), AtomicTest(filter.a, h))
  /\ UNCHANGED <<variant, filter, added, threads, started, issued, overlap, wire>>

PairTestAndAddCall(h) ==
  LET rf == FilterTestAndAdd(filter.f, h)
      ra == AtomicTestAndAdd(filter.a, h)
  IN /\ filter.a.count < MaxCount
     /\ filter' = [f |-> rf.f, a |-> ra.f]
     /\ added' = added \cup {h}
     /\ last' = PairCalled("TestAndAdd", h, rf.ret, ra.ret)
     /\ started' = IF rf.ret THEN started + 1 ELSE started
     /\ UNCHANGED <<variant, threads, issued, overlap, wire>>

PairClearCall ==
  /\ filter' = [f |-> FilterClear(filter.f), a |-> AtomicClear(filter.a)]
  /\ added' = {}
  /\ last' = PairCalled("Clear", KeyA, FALSE, FALSE)
  /\ started' = 0
  /\ UNCHANGED <<variant, threads, issued, overlap, wire>>

NextPair ==
  \/ \E h \in Keys : PairAddCall(h)
  \/ \E h \in Keys : PairTestCall(h)
  \/ \E h \in Keys : PairTestAndAddCall(h)
  \/ PairClearCall

SpecPair == InitPair /\ [][NextPair]_vars

\* C31: after every call of the same single-threaded sequence the Filter
\* and the AtomicFilter hold identical bit arrays and the same
\* configuration, Test and TestAndAdd returned the same value on both, and
\* the count of the AtomicFilter is the count of the Filter plus the number
\* of TestAndAdd calls that found their key present.
C31_SequentiallyEquivalent ==
  /\ filter.f.blocks = filter.a.blocks
  /\ filter.f.k = filter.a.k
  /\ filter.f.numBlocks = filter.a.numBlocks
  /\ filter.f.primes = filter.a.primes
  /\ filter.f.offsets = filter.a.offsets
  /\ last.ret = last.retA
  /\ filter.a.count = filter.f.count + started

\* C31 witness: a TestAndAdd returned true on both filters for a key that
\* was not added, after an Add of another key: the bit arrays are equal and not empty and the counts are
\* 1 and 2
C31_Witness ==
  /\ last.op = "TestAndAdd"
  /\ last.ret /\ last.retA
  /\ Cardinality(added) = 2
  /\ started = 1
  /\ filter.f.count = 1
  /\ filter.a.count = 2
  /\ \E w \in DOMAIN filter.f.blocks : filter.f.blocks[w] # {}


(***************************************************************************)
(* Block selection over the whole range of the hash (specification         *)
(* SpecReach).  Here a hash is [top, mid, lo]: bits 48-63, bits 32-47 and  *)
(* bits 0-31, so that h >> 48 is top and h >> 32 is top * 65536 + mid, and *)
(* block counts above 65536 can be drawn.  filter holds the block count    *)
(* alone: of the filter, or of the shard that the hash is routed to.       *)
(***************************************************************************)
\* (x * 2^n) mod m, by doubling
RECURSIVE ShiftMod(_, _, _)
ShiftMod(x, n, m) == IF n = 0 THEN x % m ELSE ShiftMod((2 * (x % m)) % m, n - 1, m)

\* hashSplit: (h >> 32) % numBlocks
hashSplitWide(h, numBlocks) ==
  [blockIdx |-> (ShiftMod(h.top, 16, numBlocks) + h.mid) % numBlocks,
   intraHash |-> h.lo]

\* hashSplitSharded: (h >> 48) % numBlocks
hashSplitShardedWide(h, numBlocks) ==
  [blockIdx |-> h.top % numBlocks, intraHash |-> h.lo]

\* block counts of a filter or of one shard
BlockCounts == {1, 2, 3, 1000, 65535, 65536, 65537, 117006}

\* the blocks that are looked at
BlockInputs == {0, 1, 2, 999, 32768, 65534, 65535, 65536, 117005}

WideHashes == [top : {0, 1, 2, 32768, 65535}, mid : {0, 1, 65535}, lo : {0}]

\* the split of hash h for the block count of the state
SplitOf(h) ==
  IF variant = "Sharded" THEN hashSplitShardedWide(h, filter.numBlocks)
  ELSE hashSplitWide(h, filter.numBlocks)

\* hash h was split; b is the block that is looked for
WasSplit(h, b) ==
  [op |-> "Split", key |-> h, blockIdx |-> SplitOf(h).blockIdx, b |-> b]

InitReach ==
  /\ variant \in Variants
  /\ \E nb \in BlockCounts, b \in BlockInputs :
       /\ b < nb
       /\ filter = [numBlocks |-> nb]
       /\ last = [op |-> "New", key |-> [top |-> 0, mid |-> 0, lo |-> 0],
                  blockIdx |-> 0, b |-> b]
  /\ added = {}
  /\ threads = NoThreads
  /\ started = 0
  /\ issued = 0
  /\ overlap = {}
  /\ wire = NoWire

SplitCall(h) ==
  /\ last' = WasSplit(h, last.b)
  /\ UNCHANGED <<variant, filter, added, threads, started, issued, overlap, wire>>

NextReach == \E h \in WideHashes : SplitCall(h)

SpecReach == InitReach /\ [][NextReach]_vars

\* some hash has block index b: for the sharded filter the hashes run over
\* every value of bits 48-63, the only bits hashSplitSharded reads; for the
\* others the hash is the one that holds b in bits 32-63
Selectable(b) ==
  IF variant = "Sharded"
  THEN \E top \in 0..65535 : SplitOf([top |-> top, mid |-> 0, lo |-> 0]).blockIdx = b
  ELSE SplitOf([top |-> b \div 65536, mid |-> b % 65536, lo |-> 0]).blockIdx = b

\* C32 as stated: every block below the block count is the block index of
\* some 64-bit hash, whatever the variant and the block count.
C32_AsStated ==
  last.op = "Split" =>
    /\ last.blockIdx < filter.numBlocks
    /\ Selectable(last.b)

\* C32 with the block count of a shard at most 65536: every block is
\* selectable; and whatever the block count, no hash selects block 65536 or
\* above in a shard
C32_UpTo65536 ==
  /\ (variant = "Sharded" => filter.numBlocks <= 65536) => C32_AsStated
  /\ variant = "Sharded" => last.blockIdx < 65536

\* a hash was split for a shard of 65537 blocks while block 65536 is looked for
C32_Unreachable ==
  /\ variant = "Sharded"
  /\ last.op = "Split"
  /\ filter.numBlocks = 65537
  /\ last.b = 65536


(***************************************************************************)
(* Count and bits of concurrent adds (specification SpecConc).             *)
(***************************************************************************)
\* the Add and TestAndAdd calls in flight whose key does not test true yet
NotVisible ==
  {t \in Threads : /\ InFlight(t)
                   /\ threads[t].op \in {"Add", "TestAndAdd"}
                   /\ ~Test(variant, filter, threads[t].key)}

\* C33: with no Clear, in every state of every interleaving Count() is at
\* most the number of Add/TestAndAdd calls whose k bits are all set: the
\* calls that have begun less those in flight whose key does not test true
\* yet; and every key whose call has returned, and so has been counted,
\* tests true.
C33_CountBehindBits ==
  /\ Count(variant, filter) <= issued - Cardinality(NotVisible)
  /\ \A h \in added : Test(variant, filter, h)

\* C33 witness: one call has set all its bits and is about to count, the
\* other has set some of its bits; neither is counted
C33_Witness ==
  /\ variant = "Atomic"
  /\ \E t, u \in Threads :
       /\ threads[t].pc = "count"
       /\ threads[u].pc = "add" /\ threads[u].i >= 1
       /\ u \in NotVisible
       /\ t \notin NotVisible
  /\ issued >= 2
  /\ filter.count = issued - 2


(***************************************************************************)
(* Concurrent TestAndAdd of one key (specification SpecDedup): every       *)
(* caller makes one TestAndAdd call of the key last.key on an AtomicFilter *)
(* that is fresh or holds one key; last.ret tells whether every probe bit  *)
(* of the key was set before the calls.  A call that has returned leaves   *)
(* its thread at pc "done" with the value it returned in present.          *)
(***************************************************************************)
InitDedup ==
  /\ variant = "Atomic"
  /\ \E nb \in 1..MaxBlocks, h \in ConcKeys :
       LET new == NewAtomicWithParams(nb, ConcK)
       IN /\ \/ filter = new /\ added = {} /\ issued = 0
             \/ \E g \in ConcKeys :
                  filter = AtomicAdd(new, g) /\ added = {g} /\ issued = 1
          /\ last = Call("TestAndAdd", h,
                         \A b \in ProbeBits(filter, h) : BitIsSet(filter, b),
                         filter.count)
  /\ threads = [t \in Threads |-> IdleThread]
  /\ started = 0
  /\ overlap = {}
  /\ wire = NoWire

\* TestAndAdd of the key begins
DedupBegin(t) == BeginTestAndAdd(t, last.key)

\* count.Add(1), after which TestAndAdd returns present
DedupCountStep(t) ==
  LET th == threads[t]
  IN /\ th.pc = "count"
     /\ filter' = AtomicCountAdd(filter)
     /\ threads' = [threads EXCEPT ![t] = [th EXCEPT !.pc = "done"]]
     /\ added' = added \cup {th.key}
     /\ UNCHANGED <<wire, variant, last, started, issued, overlap>>

NextDedup ==
  \/ \E t \in Threads : DedupBegin(t)
  \/ \E t \in Threads : LoadStep(t)
  \/ \E t \in Threads : OrStep(t)
  \/ \E t \in Threads : DedupCountStep(t)

SpecDedup == InitDedup /\ [][NextDedup]_vars

\* the callers whose test is over: they hold the value they return
PastTest == {t \in Threads : threads[t].pc \in {"add", "count", "done"}}

\* C34: when the key had a probe bit unset before the concurrent
\* TestAndAdd calls of that key, in every interleaving at least one of the
\* calls whose test is over returns false; so once all have returned, not
\* all have returned true.
C34_NotAllDuplicates ==
  (~last.ret /\ PastTest # {}) => \E t \in PastTest : ~threads[t].present

\* C34 witness: all callers have returned, the key was absent before, one
\* call returned false and another true
C34_Witness ==
  /\ ~last.ret
  /\ \A t \in Threads : threads[t].pc = "done"
  /\ \E t, u \in Threads : ~threads[t].present /\ threads[u].present

\* all callers have returned false
C34_WitnessAll ==
  /\ ~last.ret
  /\ \A t \in Threads : threads[t].pc = "done" /\ ~threads[t].present


(***************************************************************************)
(* ShardedAtomicFilter.Count during concurrent adds (specification         *)
(* SpecSum).  Count is stepped shard by shard: each step is the atomic     *)
(* Load of one shard's count.  The thread of a Count call holds the sum so *)
(* far in total, in done0 the number of adds that had returned when the    *)
(* call began, in seen the totals of all shard counts that were true at    *)
(* some instant since the call began, and, once it has returned (pc        *)
(* "counted"), in begun the number of adds begun until then.               *)
(***************************************************************************)
\* variant of ShardCountLoad that loads the count of the first shard
ShardCountLoad_First(sf, i) == sf.shards[1].count

\* shard.Count(): count.Load() of shard i
ShardCountLoad(sf, i) == sf.shards[i].count

\* the Add and TestAndAdd calls in flight
AddsInFlight ==
  {t \in Threads : InFlight(t) /\ threads[t].op \in {"Add", "TestAndAdd"}}

InitSum ==
  /\ variant = "Sharded"
  /\ InitThreads(NewShardedAtomic(1, ConcK, MaxShardsIn))

\* the thread after the Load of the count of shard i
AfterSum(th, sf, i) ==
  LET total == th.total + ShardCountLoad(sf, i)
  IN IF i >= sf.numShards
     THEN [th EXCEPT !.pc = "counted", !.total = total, !.begun = issued]
     ELSE [th EXCEPT !.pc = "sum", !.i = i + 1, !.total = total]

\* Count begins: the Load of the count of the first shard
BeginCount(t) ==
  /\ ~InFlight(t)
  /\ \A u \in Threads : threads[u].op # "Count"
  /\ threads' = [threads EXCEPT ![t] =
       AfterSum([pc |-> "sum", op |-> "Count", key |-> KeyA, i |-> 1,
                 present |-> FALSE, guar |-> FALSE, total |-> 0,
                 done0 |-> issued - Cardinality(AddsInFlight),
                 seen |-> {ShardedCount(filter)}, begun |-> issued],
                filter, 1)]
  /\ UNCHANGED <<wire, variant, filter, added, last, started, issued, overlap>>

\* the Load of the count of the next shard
SumStep(t) ==
  LET th == threads[t]
  IN /\ th.pc = "sum"
     /\ threads' = [threads EXCEPT ![t] = AfterSum(th, filter, th.i)]
     /\ UNCHANGED <<wire, variant, filter, added, last, started, issued, overlap>>

\* count.Add(1) of an add, after which it returns; a Count call in flight
\* notes the new total
AddCountStep(t) ==
  LET th == threads[t]
      f2 == WithShard(th.key, AtomicCountAdd(ShardOf(th.key)))
  IN /\ th.pc = "count"
     /\ filter' = f2
     /\ threads' = [u \in Threads |->
          IF u = t THEN IdleThread
          ELSE IF threads[u].pc = "sum"
               THEN [threads[u] EXCEPT !.seen = @ \cup {ShardedCount(f2)}]
               ELSE threads[u]]
     /\ added' = added \cup {th.key}
     /\ UNCHANGED <<wire, variant, last, started, issued, overlap>>

NextSum ==
  \/ \E t \in Threads, h \in ConcKeys : BeginAdd(t, h)
  \/ \E t \in Threads : OrStep(t)
  \/ \E t \in Threads : AddCountStep(t)
  \/ \E t \in Threads : BeginCount(t)
  \/ \E t \in Threads : SumStep(t)

SpecSum == InitSum /\ [][NextSum]_vars

\* C35: with no Clear, the value a Count() of the sharded filter returns is
\* at least the number of adds that had returned when it began, at most
\* the number of adds begun when it returned, and is the total of all
\* shard counts at some instant during the call.
C35_ShardedCountBounds ==
  \A t \in Threads :
    threads[t].pc = "counted" =>
      /\ threads[t].total >= threads[t].done0
      /\ threads[t].total <= threads[t].begun
      /\ threads[t].total \in threads[t].seen

\* C35 witness: Count() returned 1 although the total of the shard counts
\* was 0 when it began and 2 when it returned: an add was counted in the
\* first shard after Count had read it, and one in the second before
C35_Witness ==
  \E t \in Threads :
    /\ threads[t].pc = "counted"
    /\ threads[t].total = 1
    /\ threads[t].done0 = 0
    /\ threads[t].seen = {0, 1, 2}
    /\ ShardedCount(filter) = 2
    /\ filter.shards[1].count = 1


(***************************************************************************)
(* The order of the checks of UnmarshalBinary (specification SpecSer).     *)
(***************************************************************************)
\* C36: UnmarshalBinary reports the error kind of the first failing check
\* in the order length < 21, version, k, blockCount zero, blockCount above
\* the ceiling, exact length: a short input gives invalid-data whatever
\* its bytes, a bad version gives unsupported-version whatever k says, a
\* bad k under a good version gives invalid-k whatever the blockCount and
\* the length, and the last three checks give invalid-data.
C36_ValidationOrder ==
  Decoded =>
    LET d == wire.buf
    IN IF Len(d) < 21 THEN last.err = ErrInvalidData
       ELSE IF ~VersionOk(d) THEN last.err = ErrUnsupportedVersion
       ELSE IF ~KOk(d) THEN last.err = ErrInvalidK
       ELSE IF NumBlocksZero(d) THEN last.err = ErrInvalidData
       ELSE IF ~NumBlocksBelowCeiling(d) THEN last.err = ErrInvalidData
       ELSE IF ~ExactLength(d) THEN last.err = ErrInvalidData
       ELSE last.err = NoError

\* C36 witness: a buffer with version 2 and k = 15 was refused with the
\* unsupported-version error
C36_Witness ==
  /\ Decoded
  /\ Len(wire.buf) >= 21
  /\ wire.buf[1] = 2
  /\ wire.buf[2] = 15
  /\ ~KOk(wire.buf)
  /\ last.err = ErrUnsupportedVersion

\* a buffer with k = 15, a valid blockCount and one byte missing was
\* refused with the invalid-k error
C36_WitnessK ==
  /\ Decoded
  /\ Len(wire.buf) >= 21
  /\ VersionOk(wire.buf)
  /\ wire.buf[2] = 15
  /\ NumBlocksOk(wire.buf)
  /\ ~ExactLength(wire.buf)
  /\ last.err = ErrInvalidK

\* a buffer of 20 bytes with version 2 was refused with the invalid-data
\* error
C36_WitnessShort ==
  /\ Decoded
  /\ Len(wire.buf) = 20
  /\ wire.buf[1] = 2
  /\ last.err = ErrInvalidData


(***************************************************************************)
(* Encoding a decoded filter (specification SpecSer).                      *)
(***************************************************************************)
\* the caller holds a buffer that UnmarshalBinary has accepted
Accepted == Decoded /\ last.err = NoError

\* C37: MarshalBinary of the filter that UnmarshalBinary returned for an
\* accepted buffer writes that buffer again, byte for byte; the count and
\* the block words of the buffer are taken over as they are, also when
\* they do not fit each other.
C37_ReverseRoundTrip ==
  [][(Accepted /\ last'.op = "MarshalBinary") =>
       /\ last'.err = NoError
       /\ wire'.buf = wire.buf
       /\ filter' = last.ret]_vars

\* C37 witness: a buffer whose count field was overwritten with 5 and whose
\* blocks are all zero was accepted, and MarshalBinary of the decoded
\* filter has written it again
C37_Witness ==
  /\ last.op = "MarshalBinary"
  /\ wire.edits = "none"
  /\ filter.count = 5
  /\ wire.buf[14] = 5
  /\ \A w \in DOMAIN filter.blocks : filter.blocks[w] = {}
  /\ \A i \in 22..Len(wire.buf) : wire.buf[i] = 0

\* the same for a buffer whose first block byte was overwritten with 255
\* while its count is 0
C37_WitnessBits ==
  /\ last.op = "MarshalBinary"
  /\ filter.count = 0
  /\ wire.buf[22] = 255
  /\ filter.blocks[0] = 0..7


(***************************************************************************)
(* Count and bits of a Filter in sequential use (specification Spec).      *)
(***************************************************************************)
\* C38: on a Filter built by a constructor and changed only by Add,
\* TestAndAdd and Clear, count is 0 exactly when all bits are zero, and
\* when count >= 1 the number of set bits is at least k and at most
\* k * count.
C38_CountAndBits ==
  variant = "Filter" =>
    /\ (filter.count = 0) = AllZero(variant, filter)
    /\ filter.count >= 1 =>
         /\ SetBitsLoop(filter, 0) >= filter.k
         /\ SetBitsLoop(filter, 0) <= filter.k * filter.count

\* C38 witness: after three calls that were counted, of keys with the same
\* probe bits, k bits are set
C38_Witness ==
  /\ variant = "Filter"
  /\ filter.count = 3
  /\ SetBitsLoop(filter, 0) = filter.k
  /\ Cardinality(added) >= 2

\* two adds have set 2k bits
C38_WitnessMost ==
  /\ variant = "Filter"
  /\ filter.count = 2
  /\ SetBitsLoop(filter, 0) = 2 * filter.k


(***************************************************************************)
(* Shape of the partition table (specification Spec, whose constructors    *)
(* are called with every k of KInputs).                                    *)
(***************************************************************************)
\* C39: for each k in 3..14 the table holds exactly k positive widths that
\* are pairwise distinct and sum to 512, and the offsets computed from them
\* are the exclusive prefix sums (offsets[0] = 0, offsets[i] =
\* offsets[i-1] + widths[i-1]); GetPrimePartition returns nil for every k
\* outside 3..14.
C39_PartitionShape ==
  /\ \A g \in Parts(variant, filter) :
       LET p == GetPrimePartition(g.k)
           o == ComputeOffsets(p)
       IN /\ g.k \in 3..14
          /\ Len(p) = g.k
          /\ \A i \in 1..g.k : p[i] > 0
          /\ \A i, j \in 1..g.k : i # j => p[i] # p[j]
          /\ Len(o) = g.k
          /\ o[1] = 0
          /\ \A i \in 2..g.k : o[i] = o[i - 1] + p[i - 1]
          /\ o[g.k] + p[g.k] = BlockBits
          /\ g.primes = p
          /\ g.offsets = o
  /\ (last.op = "New" /\ last.k \notin 3..14) => GetPrimePartition(last.k) = <<>>

\* C39 witness: a filter constructed with k = 14, the longest row
C39_Witness ==
  /\ last.op = "New"
  /\ last.k = 14
  /\ variant = "Filter"
  /\ filter.k = 14
  /\ filter.offsets[14] = 441

\* a constructor was called with k = 15, for which there is no row
C39_WitnessNil ==
  /\ last.op = "New"
  /\ last.k = 15
  /\ filter.k = 7
  /\ filter.offsets[7] + filter.primes[7] = 512


(***************************************************************************)
(* Accessors.  SpecRead is sequential use in which the caller also reads   *)
(* Count, Cap, K, NumBlocks, NumShards, EstimatedFillRatio and             *)
(* EstimatedFalsePositiveRate between the calls that change the filter.    *)
(***************************************************************************)
FilterCap(f) == f.numBlocks * BlockBits

Cap(v, f) ==
  CASE v = "Filter"  -> FilterCap(f)
    [] v = "Atomic"  -> AtomicCap(f)
    [] v = "Sharded" -> ShardedCap(f)

K(v, f) == IF v = "Sharded" THEN f.shards[1].k ELSE f.k

RECURSIVE ShardedNumBlocksLoop(_, _)
ShardedNumBlocksLoop(sf, i) ==
  IF i > sf.numShards THEN 0
  ELSE sf.shards[i].numBlocks + ShardedNumBlocksLoop(sf, i + 1)

NumBlocks(v, f) == IF v = "Sharded" THEN ShardedNumBlocksLoop(f, 1) ELSE f.numBlocks

\* EstimatedFalsePositiveRate as the arguments it hands to
\* EstimateFalsePositiveRate: one triple, or one triple for each shard
EstimatedFalsePositiveRate(v, f) ==
  IF v = "Sharded"
  THEN [i \in 1..f.numShards |->
          <<f.shards[i].numBlocks, f.shards[i].k, f.shards[i].count>>]
  ELSE <<<<f.numBlocks, f.k, f.count>>>>

\* the accessors of a variant
ReadOps(v) ==
  {"Count", "Cap", "K", "NumBlocks", "EstimatedFillRatio",
   "EstimatedFalsePositiveRate"}
    \cup (IF v = "Sharded" THEN {"NumShards"} ELSE {})

Accessor(op, v, f) ==
  CASE op = "Count"                      -> Count(v, f)
    [] op = "Cap"                        -> Cap(v, f)
    [] op = "K"                          -> K(v, f)
    [] op = "NumBlocks"                  -> NumBlocks(v, f)
    [] op = "NumShards"                  -> f.numShards
    [] op = "EstimatedFillRatio"         -> EstimatedFillRatio(v, f)
    [] op = "EstimatedFalsePositiveRate" -> EstimatedFalsePositiveRate(v, f)

InitRead ==
  /\ variant \in Variants
  /\ \E nb \in 1..MaxBlocks, kk \in SerKs :
       /\ \/ variant = "Filter" /\ filter = NewWithParams(nb, kk)
          \/ variant = "Atomic" /\ filter = NewAtomicWithParams(nb, kk)
          \/ /\ variant = "Sharded"
             /\ \E ns \in 1..MaxShardsIn : filter = NewShardedAtomic(nb, kk, ns)
       /\ last = New(nb, kk)
  /\ added = {}
  /\ threads = NoThreads
  /\ started = 0
  /\ issued = 0
  /\ overlap = {}
  /\ wire = NoWire

ReadCall(op) ==
  /\ op \in ReadOps(variant)
  /\ last' = [op |-> op, key |-> KeyA, ret |-> FALSE,
              pre |-> Count(variant, filter),
              val |-> Accessor(op, variant, filter)]
  /\ UNCHANGED <<filter, added>>
  /\ SeqFrame

NextRead ==
  \/ Next
  \/ \E op \in ReadOps(variant) : ReadCall(op)

SpecRead == InitRead /\ [][NextRead]_vars

\* C40: Test, TestString, Count, Cap, K, NumBlocks, NumShards,
\* EstimatedFillRatio and EstimatedFalsePositiveRate leave the bit array and
\* the count unchanged; no operation, Add, TestAndAdd and Clear included,
\* changes k, blockCount, the partition widths, the offsets or the shard
\* count; and Cap() equals NumBlocks() * 512 before and after every call.
C40_ReadOnlyAndImmutable ==
  [][/\ Config(variant', filter') = Config(variant, filter)
     /\ last'.op \in ReadOps(variant) \cup {"Test"} => filter' = filter
     /\ Cap(variant, filter) = NumBlocks(variant, filter) * 512
     /\ Cap(variant', filter') = NumBlocks(variant', filter') * 512]_vars

\* C40 witness: Cap() of a sharded filter of two shards of two blocks each,
\* read after three keys were added
C40_Witness ==
  /\ last.op = "Cap"
  /\ variant = "Sharded"
  /\ filter.numShards = 2
  /\ last.val = 2048
  /\ last.pre = 3

\* Clear of a Filter that holds keys, with k = 14
C40_WitnessClear ==
  /\ last.op = "Clear"
  /\ last.pre = 2
  /\ variant = "Filter"
  /\ filter.k = 14
  /\ filter.count = 0

====
